---- MODULE Spec2Model ----
(***************************************************************************)
(* A model of the binding layer of hitchcock: the GLFW error-callback      *)
(* registry and its trampoline (src/src/glfw.rs), the GL debug-callback    *)
(* registry and the lazily resolved GL entry points (src/src/gl.rs), and   *)
(* the enum/code mappings generated by define_enum! (src/src/macros.rs).   *)
(*                                                                         *)
(* Threads run the public functions of the crate step by step; a step is   *)
(* one statement (or one lock operation) of the source.  The foreign       *)
(* libraries are the environment: GLFW holds one error call-in pointer,    *)
(* the GL holds one debug call-in pointer, glfwGetProcAddress answers a    *)
(* lookup with a null or non-null address.                                 *)
(***************************************************************************)
EXTENDS Integers, Sequences, FiniteSets, TLC

VARIABLES
    \* ---- process and threads
    pc,              \* pc[t]: the statement thread t is at
    aborted,         \* the process is gone (abort, or the main thread panicked)
    ev,              \* what the last step did that a caller can observe
    \* ---- glfw.rs: error callback registry
    ERROR_CALLBACK,  \* the value inside the Mutex<Option<FnError>>
    errLock,         \* the threads holding ERROR_CALLBACK's MutexGuard
    errPoisoned,     \* the Mutex's poison flag
    glfwErrCb,       \* GLFW's own error call-in pointer
    \* ---- gl.rs: debug callback registry
    DEBUG_CALLBACK,  \* the value inside the Mutex<Option<FnDebug>>
    dbgLock,         \* the threads holding DEBUG_CALLBACK's MutexGuard
    dbgPoisoned,     \* the Mutex's poison flag
    glDebugCb,       \* the GL's own debug call-in pointer
    \* ---- locals of the function a thread is in
    arg,             \* arg[t]: the `callback` argument of a registration
    cb,              \* cb[t]: the callback a trampoline copied out of the slot
    alone,           \* alone[t]: no other registration overlapped t's one so far
    fresh,           \* fresh[t]: the slot was not stored to since t's trampoline read it
    lastReplaced,    \* the value the latest store to ERROR_CALLBACK replaced
    raw,             \* raw[t]: the raw arguments of the call-in thread t is in
    \* ---- gl.rs: glfn! cells
    once,            \* once[s]: state of the OnceLock's Once of symbol s
    cell,            \* cell[s]: the function pointer stored in the OnceLock
    sym,             \* sym[t]: the wrapper thread t is in
    tmp,             \* tmp[t]: the address the init closure of t got from the lookup
    fptr,            \* fptr[t]: the `f` thread t got from get_or_init
    lookups,         \* lookups[s]: glfwGetProcAddress calls made for s
    stores,          \* stores[s]: writes made to the cell of s
    \* ---- macros.rs: inputs and results of the enum conversions
    en,              \* the conversion under evaluation
    \* ---- glfw.rs: ErrorCode::from
    errorCode,       \* the i32 code under conversion and the ErrorCode it gave
    \* ---- the wrappers of foreign functions (glfw.rs, gl.rs, imgui.rs)
    call,            \* the wrapper call made last: arguments, foreign calls, result
    \* ---- stb_image.rs
    flip,            \* the decoder's process-wide flip-vertically option
    flipArg,         \* << b >> for the latest set_flip_vertically_on_load(b), else << >>
    img,             \* the Image::load / load_from_memory call in progress
    \* ---- glfw.rs: per-window callbacks, windows and the end-to-end scenario
    fbCallbacks,     \* the registry of framebuffer-size callbacks, by window
    glfwFbCb,        \* glfwFbCb[w]: GLFW's framebuffer-size call-in pointer of w
    closeFlag,       \* closeFlag[w]: GLFW's close flag of window w
    e2e,             \* the scenario init, create_window, window_should_close, terminate
    \* ---- imgui.rs: ImGuiIO
    io               \* the fields IniFilename and LogFilename

vars == << pc, aborted, ev, ERROR_CALLBACK, errLock, errPoisoned, glfwErrCb,
           DEBUG_CALLBACK, dbgLock, dbgPoisoned, glDebugCb, arg, cb, alone,
           fresh, lastReplaced, raw, once, cell, sym, tmp, fptr, lookups,
           stores, en, errorCode, call, flip, flipArg, img, fbCallbacks,
           glfwFbCb, closeFlag, e2e, io >>

cbVars == << ERROR_CALLBACK, errLock, errPoisoned, glfwErrCb, DEBUG_CALLBACK,
             dbgLock, dbgPoisoned, glDebugCb, arg, cb, alone, fresh, lastReplaced,
             raw >>

errVars == << ERROR_CALLBACK, errLock, errPoisoned, glfwErrCb >>

dbgVars == << DEBUG_CALLBACK, dbgLock, dbgPoisoned, glDebugCb >>

glVars == << once, cell, sym, tmp, fptr, lookups, stores >>

stbVars == << flip, flipArg, img >>

bindVars == << errorCode, call, stbVars >>

extVars == << fbCallbacks, glfwFbCb, closeFlag, e2e, io >>

(***************************************************************************)
(* Bounds.                                                                 *)
(***************************************************************************)
\* Threads besides the main thread.
NumWorkers == 1

MainThread == 0

Threads == 0 .. NumWorkers

(***************************************************************************)
(* Values.                                                                 *)
(***************************************************************************)
None == "None"

\* A Mutex nobody holds; a held one is the set of its one holder.
Free == {}

\* A null address.
Null == "null"

\* The user functions a program registers (fn items of type FnError / FnDebug).
FnErrors == {"f", "g"}

FnDebugs == {"df", "dg"}

\* The address of the trampoline `error_callback`, as `*const c_void`.
ErrorTrampoline == "error_callback"

\* The address of the trampoline `debug_callback`, as `*const c_void`.
DebugTrampoline == "debug_callback"

NoEvent == [kind |-> "none"]

\* No call-in is in progress on a thread.
NoRaw == << >>

(***************************************************************************)
(* Threads, panics and aborts.                                             *)
(***************************************************************************)
\* A panic that unwinds a Rust frame ends the thread; the process ends with
\* the main thread.
Panicked(t) == [pc EXCEPT ![t] = "panicked"]

ProcessGone(t) == t = MainThread

\* Threads inside glfw::set_error_callback.
Registering ==
    { t \in Threads : pc[t] \in {"sec_store", "sec_ffi", "cb_sec_store", "cb_sec_ffi"} }

(***************************************************************************)
(* glfw.rs: set_error_callback.                                            *)
(***************************************************************************)
\* A registration that keeps a callback already set (the slot filled as
\* by Option::get_or_insert).
StoreSlotKeep(old, callback) ==
    IF old # None /\ callback # None THEN old ELSE callback

\* `*ERROR_CALLBACK.lock().unwrap() = callback`: the value the slot gets.
StoreSlot(old, callback) == callback

\* The trampoline handed to GLFW whatever the argument.
CallInPointerAlways(callback) == ErrorTrampoline

\* The test of the argument inverted (is_none for is_some).
CallInPointerInverted(callback) ==
    IF callback = None THEN ErrorTrampoline ELSE Null

\* `if callback.is_some() { error_callback as *const c_void } else { ptr::null() }`
CallInPointer(callback) == IF callback # None THEN ErrorTrampoline ELSE Null

\* Entry of set_error_callback(callback) and ERROR_CALLBACK.lock().  The
\* caller is the program, or the user's error callback while error_callback
\* dispatches to it (the statements are then the "cb_" ones).
sec_lock(t, callback) ==
    /\ ~aborted
    /\ pc[t] \in {"idle", "ec_call"}
    /\ errLock = Free
    /\ errLock' = {t}
    /\ arg' = [arg EXCEPT ![t] = callback]
    /\ alone' = [u \in Threads |->
                    IF u = t THEN Registering = {}
                    ELSE IF u \in Registering THEN FALSE ELSE alone[u]]
    /\ pc' = [pc EXCEPT ![t] = IF pc[t] = "idle" THEN "sec_store" ELSE "cb_sec_store"]
    /\ ev' = NoEvent
    /\ UNCHANGED << aborted, ERROR_CALLBACK, errPoisoned, glfwErrCb, dbgVars,
                    cb, fresh, lastReplaced, raw, glVars, en, bindVars >>
    /\ UNCHANGED extVars

\* .unwrap() and the assignment through the guard; the guard is a temporary
\* of the statement and is dropped at its end.  A panic inside the user's
\* callback unwinds to the extern "C" boundary, where the process aborts.
sec_store(t) ==
    /\ ~aborted
    /\ pc[t] \in {"sec_store", "cb_sec_store"}
    /\ errLock' = Free
    /\ IF errPoisoned
         THEN /\ pc' = Panicked(t)
              /\ aborted' = (ProcessGone(t) \/ pc[t] = "cb_sec_store")
              /\ ev' = [kind |-> "panic", at |-> "set_error_callback", thread |-> t]
              /\ UNCHANGED << ERROR_CALLBACK, fresh, lastReplaced, raw >>
         ELSE /\ ERROR_CALLBACK' = StoreSlot(ERROR_CALLBACK, arg[t])
              /\ lastReplaced' = ERROR_CALLBACK
              /\ fresh' = [u \in Threads |-> FALSE]
              /\ pc' = [pc EXCEPT ![t] = IF pc[t] = "sec_store" THEN "sec_ffi"
                                         ELSE "cb_sec_ffi"]
              /\ ev' = NoEvent
              /\ UNCHANGED aborted
    /\ UNCHANGED << errPoisoned, glfwErrCb, dbgVars, arg, cb, alone, raw, glVars,
                    en, bindVars >>
    /\ UNCHANGED extVars

\* ffi::glfwSetErrorCallback(cb) and the return.
sec_ffi(t) ==
    /\ ~aborted
    /\ pc[t] \in {"sec_ffi", "cb_sec_ffi"}
    /\ glfwErrCb' = CallInPointer(arg[t])
    /\ pc' = [pc EXCEPT ![t] = IF pc[t] = "sec_ffi" THEN "idle" ELSE "ec_call"]
    /\ ev' = [kind |-> "return", op |-> "set_error_callback", thread |-> t,
              arg |-> arg[t], alone |-> alone[t]]
    /\ arg' = [arg EXCEPT ![t] = None]
    /\ alone' = [alone EXCEPT ![t] = TRUE]
    /\ UNCHANGED << aborted, ERROR_CALLBACK, errLock, errPoisoned, dbgVars,
                    cb, fresh, lastReplaced, raw, glVars, en, bindVars >>
    /\ UNCHANGED extVars

(***************************************************************************)
(* glfw.rs: the trampoline error_callback, called by GLFW.                 *)
(***************************************************************************)
\* GLFW reports an error on thread t: it calls the pointer it holds with
\* an error code and the bytes of a description.
error_callin(t, error_code, description) ==
    /\ ~aborted
    /\ pc[t] = "idle"
    /\ glfwErrCb = ErrorTrampoline
    /\ raw' = [raw EXCEPT ![t] = << error_code, description >>]
    /\ pc' = [pc EXCEPT ![t] = "ec_lock"]
    /\ ev' = NoEvent
    /\ UNCHANGED << aborted, errVars, dbgVars, arg, cb, alone, fresh,
                    lastReplaced, glVars, en, bindVars >>
    /\ UNCHANGED extVars

\* ERROR_CALLBACK.lock()
ec_lock(t) ==
    /\ ~aborted
    /\ pc[t] = "ec_lock"
    /\ errLock = Free
    /\ errLock' = {t}
    /\ pc' = [pc EXCEPT ![t] = "ec_expect"]
    /\ ev' = NoEvent
    /\ UNCHANGED << aborted, ERROR_CALLBACK, errPoisoned, glfwErrCb, dbgVars,
                    arg, cb, alone, fresh, lastReplaced, raw, glVars, en, bindVars >>
    /\ UNCHANGED extVars

\* A missing callback taken for a callback that does nothing.
SlotCheckNoop(slot) == IF slot = None THEN "noop" ELSE slot

\* `Option::expect` on the slot's value: the callback, or no callback (a panic).
SlotCheck(slot) == slot

\* The guard kept until the trampoline returns.
AfterLookupHeld(t) == {t}

\* The MutexGuard is a temporary of the `let cb = ..` statement: it is
\* dropped at the end of the statement, and the Mutex is free again.
AfterLookup(t) == Free

\* .unwrap().expect("GLFW error callback is not set"): the Option is copied
\* out of the guard, which is dropped at the end of the `let` statement.  A
\* panic unwinds to the extern "C" boundary, where the process aborts; the
\* guard dropped on the way poisons the Mutex.
ec_expect(t) ==
    /\ ~aborted
    /\ pc[t] = "ec_expect"
    /\ errLock' = AfterLookup(t)
    /\ IF errPoisoned
         THEN /\ aborted' = TRUE
              /\ pc' = Panicked(t)
              /\ ev' = [kind |-> "fatal", at |-> "error_callback", why |-> "poisoned"]
              /\ UNCHANGED << errPoisoned, cb, fresh >>
         ELSE IF SlotCheck(ERROR_CALLBACK) = None
         THEN /\ aborted' = TRUE
              /\ errPoisoned' = TRUE
              /\ pc' = Panicked(t)
              /\ ev' = [kind |-> "fatal", at |-> "error_callback", why |-> "not set"]
              /\ UNCHANGED << cb, fresh >>
         ELSE /\ cb' = [cb EXCEPT ![t] = SlotCheck(ERROR_CALLBACK)]
              /\ fresh' = [fresh EXCEPT ![t] = TRUE]
              /\ pc' = [pc EXCEPT ![t] = "ec_to_str"]
              /\ ev' = NoEvent
              /\ UNCHANGED << aborted, errPoisoned >>
    /\ UNCHANGED << ERROR_CALLBACK, glfwErrCb, dbgVars, arg, alone,
                    lastReplaced, raw, glVars, en, bindVars >>
    /\ UNCHANGED extVars

(***************************************************************************)
(* gl.rs: glfn!, one OnceLock cell per wrapped GL entry point.             *)
(* OnceLock::get_or_init runs the closure under the cell's Once: a thread  *)
(* that finds the Once running waits; a closure that panics leaves the     *)
(* cell empty and the Once poisoned, and the next caller runs its closure. *)
(***************************************************************************)
\* The wrapped entry points modelled (of the 33 glfn! lines).
GlSymbols == {"glClear", "glGetError"}

Symbols ==
    GlSymbols \cup {"glDebugMessageCallback"}
        \cup {"glGetUniformLocation", "glShaderSource", "glGenBuffers",
               "glGenTextures", "glGenVertexArrays"}

\* The non-null addresses glfwGetProcAddress may answer with.
Addresses == {"p1", "p2"}

\* A cell without the Once's exclusion: every caller that finds the cell
\* unfinished runs its closure, also while another one is running.
RunsInitRacy(st) == st # "complete"

\* call_once_force: whether a caller that finds the Once in state st runs
\* its closure.
RunsInit(st) == st \in {"incomplete", "poisoned"}

\* get_proc_address: `if proc.is_null() { return Err(Error::Ffi) }`
LookupFails(proc) == proc = Null

\* One static shared by all the wrappers.
CellShared(s) == "glClear"

\* `static $once`: the cell the wrapper of symbol s declares for itself.
CellOf(s) == s

\* Entry of the wrapper of symbol s.
glfn_enter(t, s) ==
    /\ ~aborted
    /\ pc[t] = "idle"
    /\ sym' = [sym EXCEPT ![t] = s]
    /\ pc' = [pc EXCEPT ![t] = "gl_get"]
    /\ ev' = NoEvent
    /\ UNCHANGED << aborted, cbVars, once, cell, tmp, fptr, lookups, stores,
                    en, bindVars >>
    /\ UNCHANGED extVars

\* get_or_init, fast path: the cell is read if it is initialised.
glfn_get(t) ==
    /\ ~aborted
    /\ pc[t] = "gl_get"
    /\ IF once[sym[t]] = "complete"
         THEN /\ fptr' = [fptr EXCEPT ![t] = cell[sym[t]]]
              /\ pc' = [pc EXCEPT ![t] = "gl_call"]
         ELSE /\ pc' = [pc EXCEPT ![t] = "gl_once"]
              /\ UNCHANGED fptr
    /\ ev' = NoEvent
    /\ UNCHANGED << aborted, cbVars, once, cell, sym, tmp, lookups, stores,
                    en, bindVars >>
    /\ UNCHANGED extVars

\* get_or_init, slow path: the Once is taken, or found complete; a caller
\* that finds it running waits.
glfn_once(t) ==
    /\ ~aborted
    /\ pc[t] = "gl_once"
    /\ \/ /\ once[sym[t]] = "complete"
          /\ fptr' = [fptr EXCEPT ![t] = cell[sym[t]]]
          /\ pc' = [pc EXCEPT ![t] = "gl_call"]
          /\ UNCHANGED once
       \/ /\ RunsInit(once[sym[t]])
          /\ once' = [once EXCEPT ![sym[t]] = "running"]
          /\ pc' = [pc EXCEPT ![t] = "gl_lookup"]
          /\ UNCHANGED fptr
    /\ ev' = NoEvent
    /\ UNCHANGED << aborted, cbVars, cell, sym, tmp, lookups, stores, en, bindVars >>
    /\ UNCHANGED extVars

\* The closure: crate::glfw::get_proc_address(stringify!($name)).expect(..).
\* glfwGetProcAddress answers null or an address; on null the closure
\* panics, the Once is left poisoned and the panic unwinds the caller.
glfn_lookup(t) ==
    /\ ~aborted
    /\ pc[t] = "gl_lookup"
    /\ lookups' = [lookups EXCEPT ![sym[t]] = @ + 1]
    /\ \E proc \in Addresses \cup {Null} :
          IF LookupFails(proc)
            THEN /\ once' = [once EXCEPT ![sym[t]] = "poisoned"]
                 /\ pc' = Panicked(t)
                 /\ aborted' = ProcessGone(t)
                 /\ ev' = [kind |-> "panic", at |-> sym[t], thread |-> t]
                 /\ UNCHANGED tmp
            ELSE /\ tmp' = [tmp EXCEPT ![t] = proc]
                 /\ pc' = [pc EXCEPT ![t] = "gl_store"]
                 /\ ev' = NoEvent
                 /\ UNCHANGED << once, aborted >>
    /\ UNCHANGED << cbVars, cell, sym, fptr, stores, en, bindVars >>
    /\ UNCHANGED extVars

\* The transmuted address is written to the cell, the Once completes, and
\* get_or_init returns a reference to the cell's value.
glfn_store(t) ==
    /\ ~aborted
    /\ pc[t] = "gl_store"
    /\ cell' = [cell EXCEPT ![CellOf(sym[t])] = tmp[t]]
    /\ once' = [once EXCEPT ![sym[t]] = "complete"]
    /\ stores' = [stores EXCEPT ![sym[t]] = @ + 1]
    /\ fptr' = [fptr EXCEPT ![t] = tmp[t]]
    /\ pc' = [pc EXCEPT ![t] = "gl_call"]
    /\ ev' = NoEvent
    /\ UNCHANGED << aborted, cbVars, sym, tmp, lookups, en, bindVars >>
    /\ UNCHANGED extVars

\* f(args): the call through the pointer, and the wrapper's return.
\* glDebugMessageCallback(debug_callback, null) installs the GL's call-in.
glfn_call(t) ==
    /\ ~aborted
    /\ pc[t] = "gl_call"
    /\ glDebugCb' = IF sym[t] = "glDebugMessageCallback"
                      THEN DebugTrampoline ELSE glDebugCb
    /\ pc' = [pc EXCEPT ![t] = "idle"]
    /\ ev' = [kind |-> "call", sym |-> sym[t], thread |-> t, through |-> fptr[t]]
    /\ sym' = [sym EXCEPT ![t] = None]
    /\ tmp' = [tmp EXCEPT ![t] = Null]
    /\ fptr' = [fptr EXCEPT ![t] = Null]
    /\ UNCHANGED << aborted, errVars, DEBUG_CALLBACK, dbgLock, dbgPoisoned, arg,
                    cb, alone, fresh, lastReplaced, raw, once, cell,
                    lookups, stores, en, bindVars >>
    /\ UNCHANGED extVars

(***************************************************************************)
(* gl.rs: debug_message_callback and the trampoline debug_callback.        *)
(***************************************************************************)
\* Entry of debug_message_callback(callback) and DEBUG_CALLBACK.lock().
dmc_lock(t, callback) ==
    /\ ~aborted
    /\ pc[t] = "idle"
    /\ dbgLock = Free
    /\ dbgLock' = {t}
    /\ arg' = [arg EXCEPT ![t] = callback]
    /\ pc' = [pc EXCEPT ![t] = "dmc_store"]
    /\ ev' = NoEvent
    /\ UNCHANGED << aborted, errVars, DEBUG_CALLBACK, dbgPoisoned, glDebugCb,
                    cb, alone, fresh, lastReplaced, raw, glVars, en, bindVars >>
    /\ UNCHANGED extVars

\* `*DEBUG_CALLBACK.lock().unwrap() = Some(callback)`, then the call of the
\* wrapper ffi::glDebugMessageCallback.
\* The registration that leaves the slot empty.
DebugSlotCleared(callback) == None

\* `Some(callback)`: the value debug_message_callback stores.
DebugSlot(callback) == callback

dmc_store(t) ==
    /\ ~aborted
    /\ pc[t] = "dmc_store"
    /\ dbgLock' = Free
    /\ IF dbgPoisoned
         THEN /\ pc' = Panicked(t)
              /\ aborted' = ProcessGone(t)
              /\ ev' = [kind |-> "panic", at |-> "debug_message_callback", thread |-> t]
              /\ UNCHANGED << DEBUG_CALLBACK, sym, arg >>
         ELSE /\ DEBUG_CALLBACK' = DebugSlot(arg[t])
              /\ arg' = [arg EXCEPT ![t] = None]
              /\ sym' = [sym EXCEPT ![t] = "glDebugMessageCallback"]
              /\ pc' = [pc EXCEPT ![t] = "gl_get"]
              /\ ev' = NoEvent
              /\ UNCHANGED aborted
    /\ UNCHANGED << errVars, dbgPoisoned, glDebugCb, cb, alone, fresh,
                    lastReplaced, raw, once, cell, tmp, fptr, lookups,
                    stores, en, bindVars >>
    /\ UNCHANGED extVars

\* The GL reports a message on thread t: it calls the pointer it holds with
\* the codes of the message, its id and the bytes of its text.
debug_callin(t, source, typ, id, severity, message) ==
    /\ ~aborted
    /\ pc[t] = "idle"
    /\ glDebugCb = DebugTrampoline
    /\ raw' = [raw EXCEPT ![t] = << source, typ, id, severity, message >>]
    /\ pc' = [pc EXCEPT ![t] = "dc_lock"]
    /\ ev' = NoEvent
    /\ UNCHANGED << aborted, errVars, dbgVars, arg, cb, alone, fresh,
                    lastReplaced, glVars, en, bindVars >>
    /\ UNCHANGED extVars

\* DEBUG_CALLBACK.lock()
dc_lock(t) ==
    /\ ~aborted
    /\ pc[t] = "dc_lock"
    /\ dbgLock = Free
    /\ dbgLock' = {t}
    /\ pc' = [pc EXCEPT ![t] = "dc_expect"]
    /\ ev' = NoEvent
    /\ UNCHANGED << aborted, errVars, DEBUG_CALLBACK, dbgPoisoned, glDebugCb,
                    arg, cb, alone, fresh, lastReplaced, raw, glVars, en, bindVars >>
    /\ UNCHANGED extVars

\* .unwrap().expect("GL error callback is not set")
dc_expect(t) ==
    /\ ~aborted
    /\ pc[t] = "dc_expect"
    /\ dbgLock' = AfterLookup(t)
    /\ IF dbgPoisoned
         THEN /\ aborted' = TRUE
              /\ pc' = Panicked(t)
              /\ ev' = [kind |-> "fatal", at |-> "debug_callback", why |-> "poisoned"]
              /\ UNCHANGED << dbgPoisoned, cb >>
         ELSE IF SlotCheck(DEBUG_CALLBACK) = None
         THEN /\ aborted' = TRUE
              /\ dbgPoisoned' = TRUE
              /\ pc' = Panicked(t)
              /\ ev' = [kind |-> "fatal", at |-> "debug_callback", why |-> "not set"]
              /\ UNCHANGED cb
         ELSE /\ cb' = [cb EXCEPT ![t] = SlotCheck(DEBUG_CALLBACK)]
              /\ pc' = [pc EXCEPT ![t] = "dc_to_str"]
              /\ ev' = NoEvent
              /\ UNCHANGED << aborted, dbgPoisoned >>
    /\ UNCHANGED << errVars, DEBUG_CALLBACK, glDebugCb, arg, alone, fresh,
                    lastReplaced, raw, glVars, en, bindVars >>
    /\ UNCHANGED extVars

(***************************************************************************)
(* macros.rs: define_enum!, and its three uses in gl.rs.                   *)
(* A named variant V is the tuple <<V>>, Unknown(c) the tuple              *)
(* <<"Unknown", c>>.  A table lists the arms in the order of the source.   *)
(***************************************************************************)
DebugSourceTable ==
    << << "Api",            \H8246 >>,
       << "WindowSystem",   \H8247 >>,
       << "ShaderCompiler", \H8248 >>,
       << "ThirdParty",     \H8249 >>,
       << "Application",    \H824a >>,
       << "Other",          \H824b >> >>

\* DebugType with the literal of Performance repeated for Other.
DebugTypeTableDup ==
    << << "Error",              \H824c >>,
       << "DeprecatedBehavior", \H824d >>,
       << "UndefinedBehavior",  \H824e >>,
       << "Portability",        \H824f >>,
       << "Performance",        \H8250 >>,
       << "Marker",             \H8268 >>,
       << "PushGroup",          \H8269 >>,
       << "PopGroup",           \H826a >>,
       << "Other",              \H8250 >> >>

DebugTypeTable ==
    << << "Error",              \H824c >>,
       << "DeprecatedBehavior", \H824d >>,
       << "UndefinedBehavior",  \H824e >>,
       << "Portability",        \H824f >>,
       << "Performance",        \H8250 >>,
       << "Marker",             \H8268 >>,
       << "PushGroup",          \H8269 >>,
       << "PopGroup",           \H826a >>,
       << "Other",              \H8251 >> >>

DebugSeverityTable ==
    << << "High",         \H9146 >>,
       << "Medium",       \H9147 >>,
       << "Low",          \H9148 >>,
       << "Notification", \H826b >> >>

EnumNames == {"DebugSource", "DebugType", "DebugSeverity"}

\* A value of $enum_type (u32) is the pair of its 16-bit halves, high half
\* first, so that all 32 bits take part in a comparison.
Half == 2^16

U32(n) == << n \div Half, n % Half >>

IsU32(x) == x[1] \in 0 .. (Half - 1) /\ x[2] \in 0 .. (Half - 1)

\* The variants and literals of a table, in the order of the source.
Arms(list) == [i \in 1 .. Len(list) |-> << list[i][1], U32(list[i][2]) >>]

Table(e) ==
    CASE e = "DebugSource"   -> Arms(DebugSourceTable)
      [] e = "DebugType"     -> Arms(DebugTypeTable)
      [] e = "DebugSeverity" -> Arms(DebugSeverityTable)

Unknown(v) == << "Unknown", v >>

\* The match made on the low 16 bits of v only.
FromLow16(table, v) ==
    LET hits == { i \in 1 .. Len(table) : table[i][2][2] = v[2] }
    IN  IF hits = {}
          THEN Unknown(v)
          ELSE << table[CHOOSE i \in hits : \A j \in hits : i <= j][1] >>

\* impl From<$enum_type> for $enum_name: the first arm whose literal is v,
\* else Unknown(v).
From(table, v) ==
    LET hits == { i \in 1 .. Len(table) : table[i][2] = v }
    IN  IF hits = {}
          THEN Unknown(v)
          ELSE << table[CHOOSE i \in hits : \A j \in hits : i <= j][1] >>

\* Unknown(v) converted to 0 in place of v.
ToUnknownZero(table, x) ==
    IF x[1] = "Unknown"
      THEN U32(0)
      ELSE table[CHOOSE i \in 1 .. Len(table) : table[i][1] = x[1]][2]

\* impl From<$enum_name> for $enum_type: the literal of the variant's arm,
\* or the value Unknown carries.
To(table, x) ==
    IF x[1] = "Unknown"
      THEN x[2]
      ELSE table[CHOOSE i \in 1 .. Len(table) : table[i][1] = x[1]][2]

\* The codes a table names, and its named variants.
TableCodes(table) == { table[i][2] : i \in 1 .. Len(table) }

Named(table) == { << table[i][1] >> : i \in 1 .. Len(table) }

\* How far around the named codes the raw codes of a check reach.
Margin == 2

\* Conversions applied in a row to one input.
MaxConv == 2

AllCodes == UNION { TableCodes(Table(e)) : e \in EnumNames }

\* The raw codes tried: every named code of the three enums, the codes
\* within Margin of one, the same with another high half, and both ends
\* of u32.
RawCodes ==
    LET near == UNION { { << k[1], lo >> : lo \in (k[2] - Margin) .. (k[2] + Margin) }
                        : k \in AllCodes }
    IN  near \cup { << 1, k[2] >> : k \in AllCodes } \cup {U32(0), << Half - 1, Half - 1 >>}

\* The enum values tried: every named variant, and Unknown of every raw code.
Values(e) == Named(Table(e)) \cup { Unknown(c) : c \in RawCodes }

NoCode == << >>

NoValue == << "-" >>

NoConversion ==
    [enum |-> "-", kind |-> "-", c0 |-> NoCode, v0 |-> NoValue,
     c |-> NoCode, v |-> NoValue, trace |-> << >>]

\* What the next conversion applies to: a code or a value.
Holds(x) ==
    IF x.trace = << >> THEN x.kind
    ELSE IF x.trace[Len(x.trace)] = "from" THEN "value" ELSE "code"

\* $enum_name::from(code)
from_code ==
    /\ en.enum \in EnumNames
    /\ Holds(en) = "code"
    /\ Len(en.trace) < MaxConv
    /\ en' = [en EXCEPT !.v = From(Table(en.enum), en.c),
                        !.trace = Append(@, "from")]
    /\ UNCHANGED << pc, aborted, ev, cbVars, glVars, bindVars >>
    /\ UNCHANGED extVars

\* $enum_type::from(value)
to_code ==
    /\ en.enum \in EnumNames
    /\ Holds(en) = "value"
    /\ Len(en.trace) < MaxConv
    /\ en' = [en EXCEPT !.c = To(Table(en.enum), en.v),
                        !.trace = Append(@, "to")]
    /\ UNCHANGED << pc, aborted, ev, cbVars, glVars, bindVars >>
    /\ UNCHANGED extVars

(***************************************************************************)
(* Placeholders of the wrappers' variables.                                *)
(***************************************************************************)
NoCall ==
    [fn |-> "-", texts |-> << >>, foreign |-> << >>, result |-> << "-" >>,
     out |-> << >>]

NoImage ==
    [fn |-> "-", at |-> "idle", input |-> << >>, checks |-> FALSE, retval |-> "null",
     w |-> 0, h |-> 0, c |-> 0, len |-> << >>, buffer |-> "none", frees |-> 0,
     flipUsed |-> 0, trace |-> << >>, pixels |-> << >>, result |-> << "-" >>]

(***************************************************************************)
(* glfw.rs: ErrorCode and its conversion from the i32 code GLFW reports.   *)
(* An i32 is an integer of -2^31 .. 2^31 - 1.                              *)
(***************************************************************************)
ErrorCodeTable ==
    << << "NoError",              0 >>,
       << "NotInitialized",       \H10001 >>,
       << "NoCurrentContext",     \H10002 >>,
       << "InvalidEnum",          \H10003 >>,
       << "InvalidValue",         \H10004 >>,
       << "OutOfMemory",          \H10005 >>,
       << "ApiUnavailable",       \H10006 >>,
       << "VersionUnavailable",   \H10007 >>,
       << "PlatformError",        \H10008 >>,
       << "FormatUnavailable",    \H10009 >>,
       << "NoWindowContext",      \H1000A >>,
       << "CursorUnavailable",    \H1000B >>,
       << "FeatureUnavailable",   \H1000C >>,
       << "FeatureUnimplemented", \H1000D >>,
       << "PlatformUnavailable",  \H1000E >> >>

I32Max == \H7FFFFFFF

I32Min == (- I32Max) - 1

\* The match made on the low 16 bits of the code only.
ErrorCodeFromLow16(code) ==
    LET hits == { i \in 1 .. Len(ErrorCodeTable) :
                    ErrorCodeTable[i][2] % Half = code % Half }
    IN  IF hits = {}
          THEN Unknown(code)
          ELSE << ErrorCodeTable[CHOOSE i \in hits : \A j \in hits : i <= j][1] >>

\* impl From<i32> for ErrorCode: the arm whose literal is the code, else
\* Unknown(code).
ErrorCodeFrom(code) == From(ErrorCodeTable, code)

ErrorCodeLiterals == { ErrorCodeTable[i][2] : i \in 1 .. Len(ErrorCodeTable) }

\* The codes tried: every literal, the codes within Margin of one, the
\* same codes negated, with the high half cleared and with another high
\* half, and both ends of i32.
ErrorCodeInputs ==
    LET near == UNION { (k - Margin) .. (k + Margin) : k \in ErrorCodeLiterals }
        ErrorCodes ==
            near \cup { - k : k \in near } \cup { k % Half : k \in ErrorCodeLiterals }
                 \cup { k + Half : k \in ErrorCodeLiterals } \cup {I32Min, I32Max}
    IN  { [code |-> c, value |-> NoValue, done |-> FALSE, given |-> TRUE] :
              c \in ErrorCodes }

NoErrorCode == [code |-> 0, value |-> NoValue, done |-> FALSE, given |-> FALSE]

\* ErrorCode::from(code)
error_code_from ==
    /\ errorCode.given
    /\ ~ errorCode.done
    /\ errorCode' = [errorCode EXCEPT !.value = ErrorCodeFrom(errorCode.code),
                                      !.done = TRUE]
    /\ UNCHANGED << pc, aborted, ev, cbVars, glVars, en, call, stbVars >>
    /\ UNCHANGED extVars

(***************************************************************************)
(* The wrappers of foreign functions.  A wrapper runs on the main thread,  *)
(* from its call to its return, in one step: it marshals its arguments,    *)
(* makes its foreign calls and translates what they return.  `call` keeps  *)
(* the text arguments, the foreign calls made, in order, each a tuple      *)
(* <<function, arguments, return value>>, and the wrapper's result:        *)
(* <<"Ok", value>>, <<"Err", error>> or <<"panic">>.                       *)
(***************************************************************************)
\* The longest text argument, in bytes.
MaxText == 2

\* A &str is the sequence of its bytes.
Texts == UNION { [1 .. n -> {0, 97}] : n \in 0 .. MaxText }

HasNul(s) == \E i \in 1 .. Len(s) : s[i] = 0

\* CString::new(s): the bytes of s followed by a NUL, or a NulError with
\* the position of the first NUL of s.
CStringNew(s) ==
    IF HasNul(s)
      THEN << "Err", << "NulError",
                        (CHOOSE i \in 1 .. Len(s) :
                            s[i] = 0 /\ \A j \in 1 .. (i - 1) : s[j] # 0) - 1 >> >>
      ELSE << "Ok", Append(s, 0) >>

\* Only the first text is checked for a NUL.
MarshalledFirstOnly(texts) ==
    IF texts # << >> /\ CStringNew(texts[1])[1] = "Err"
      THEN << "Err", << "InvalidCString", CStringNew(texts[1])[2] >> >>
      ELSE << "Ok", [i \in 1 .. Len(texts) |-> Append(texts[i], 0)] >>

\* `CString::new(text)?` for each text argument of a wrapper, in the order
\* of the source: the C strings, or Error::InvalidCString of the first
\* NulError (From<NulError> for Error).
Marshalled(texts) ==
    LET bad == { i \in 1 .. Len(texts) : CStringNew(texts[i])[1] = "Err" }
    IN  IF bad = {}
          THEN << "Ok", [i \in 1 .. Len(texts) |-> CStringNew(texts[i])[2]] >>
          ELSE << "Err", << "InvalidCString",
                            CStringNew(texts[CHOOSE i \in bad : \A j \in bad : i <= j])[2] >> >>

\* What the foreign functions return.
CInts == {-1, 0, 1, 2}

Pointers == Addresses \cup {Null}

\* Option<&Monitor> / Option<&Window> as the pointer handed to GLFW.
MapOrNull(opt) == IF opt = None THEN Null ELSE opt

\* The wrapper returned without a foreign call.
ReturnedEarly(fn, texts, result) ==
    call' = [fn |-> fn, texts |-> texts, foreign |-> << >>, result |-> result,
             out |-> << >>]

\* The wrapper made the foreign calls and returned (or panicked); out is
\* what it wrote back through its `&mut` arguments.
ReturnedWith(fn, texts, foreign, result, out) ==
    call' = [fn |-> fn, texts |-> texts, foreign |-> foreign, result |-> result,
             out |-> out]

ReturnedAfter(fn, texts, foreign, result) ==
    ReturnedWith(fn, texts, foreign, result, << >>)

\* glfwInit answered anything but GLFW_TRUE.
InitFailsNotTrue(retval) == retval # 1

\* `ffi::glfwInit() == 0`, and `retval == 0` of the ImGui backends.
InitFails(retval) == retval = 0

\* The caller is between two wrapper calls: the process runs and the
\* result of the previous call was taken.
CallerReady == ~ aborted /\ call = NoCall

\* The caller takes the result of the wrapper it called and goes on.
caller_continues ==
    /\ ~ aborted
    /\ call # NoCall
    /\ call' = NoCall
    /\ UNCHANGED << pc, aborted, ev, cbVars, glVars, en, errorCode, stbVars >>
    /\ UNCHANGED extVars

\* glfw::init()
glfw_init(retval) ==
    /\ CallerReady
    /\ ReturnedAfter("glfw::init", << >>, << << "glfwInit", << >>, retval >> >>,
                     IF InitFails(retval) THEN << "Err", << "Ffi" >> >>
                                          ELSE << "Ok", << "()" >> >>)
    /\ UNCHANGED << pc, aborted, ev, cbVars, glVars, en, errorCode, stbVars >>
    /\ UNCHANGED extVars

\* glfw::create_window(width, height, title, monitor, share)
create_window(width, height, title, monitor, share, window) ==
    /\ CallerReady
    /\ LET m == Marshalled(<< title >>)
       IN  IF m[1] = "Err"
             THEN ReturnedEarly("glfw::create_window", << title >>, m)
             ELSE ReturnedAfter("glfw::create_window", << title >>,
                      << << "glfwCreateWindow",
                            << width, height, m[2][1], MapOrNull(monitor),
                               MapOrNull(share) >>,
                            window >> >>,
                      IF window = Null THEN << "Err", << "Ffi" >> >>
                                       ELSE << "Ok", << "Window", window >> >>)
    /\ UNCHANGED << pc, aborted, ev, cbVars, glVars, en, errorCode, stbVars >>
    /\ UNCHANGED extVars

\* glfw::get_proc_address(procname)
get_proc_address(procname, proc) ==
    /\ CallerReady
    /\ LET m == Marshalled(<< procname >>)
       IN  IF m[1] = "Err"
             THEN ReturnedEarly("glfw::get_proc_address", << procname >>, m)
             ELSE ReturnedAfter("glfw::get_proc_address", << procname >>,
                      << << "glfwGetProcAddress", << m[2][1] >>, proc >> >>,
                      IF LookupFails(proc) THEN << "Err", << "Ffi" >> >>
                                           ELSE << "Ok", << "GlProc", proc >> >>)
    /\ UNCHANGED << pc, aborted, ev, cbVars, glVars, en, errorCode, stbVars >>
    /\ UNCHANGED extVars

\* A usize is the tuple of its four 16-bit limbs, the highest first.
Usize(n) == << 0, 0, n \div Half, n % Half >>

\* The 32 bits of an i32 (two's complement) as a pair of halves.
BitsOf(x) == << (x \div Half) % Half, x % Half >>

\* `as i32` (GLsizei, GLint, c_int) of a usize: its low 32 bits, read as a
\* two's complement number.
AsI32(n) ==
    IF n[3] >= Half \div 2 THEN (n[3] - Half) * Half + n[4] ELSE n[3] * Half + n[4]

\* `as usize` of an i32: the sign is extended.
AsUsize(x) ==
    IF x < 0 THEN << Half - 1, Half - 1 >> \o BitsOf(x) ELSE << 0, 0 >> \o BitsOf(x)

\* glfn!, run by the main thread from the call of the wrapper of s to the
\* foreign call: whether get_or_init runs the closure and looks s up,
\* whether the closure panics on the address `proc` the lookup answers,
\* and the function pointer f.
Resolve(s, proc) ==
    [looked |-> RunsInit(once[s]),
     panics |-> RunsInit(once[s]) /\ LookupFails(proc),
     f      |-> IF RunsInit(once[s]) THEN proc ELSE cell[s],
     foreign |-> IF RunsInit(once[s])
                   THEN << << "glfwGetProcAddress", << s >>, proc >> >>
                   ELSE << >>]

\* What Resolve(s, proc) = r leaves behind: the cell filled, or the Once
\* poisoned and, the panicking thread being the main thread, the process
\* gone.
Resolving(s, r) ==
    /\ once' = [once EXCEPT ![s] = IF r.panics THEN "poisoned" ELSE "complete"]
    /\ cell' = [cell EXCEPT ![s] = IF r.panics THEN @ ELSE r.f]
    /\ lookups' = [lookups EXCEPT ![s] = IF r.looked THEN @ + 1 ELSE @]
    /\ stores' = [stores EXCEPT ![s] = IF r.looked /\ ~ r.panics THEN @ + 1 ELSE @]
    /\ aborted' = (r.panics /\ ProcessGone(MainThread))
    /\ UNCHANGED << sym, tmp, fptr >>

\* Every negative location is a miss.
NotFoundNegative(loc) == loc < 0

\* `loc == -1`
NotFound(loc) == loc = -1

\* gl::get_uniform_location(program, name)
get_uniform_location(program, name, proc, loc) ==
    /\ CallerReady
    /\ LET m == Marshalled(<< name >>)
           r == Resolve("glGetUniformLocation", proc)
       IN  IF m[1] = "Err"
             THEN /\ ReturnedEarly("gl::get_uniform_location", << name >>, m)
                  /\ UNCHANGED << aborted, glVars >>
             ELSE /\ Resolving("glGetUniformLocation", r)
                  /\ IF r.panics
                       THEN ReturnedAfter("gl::get_uniform_location", << name >>,
                                r.foreign, << "panic" >>)
                       ELSE ReturnedAfter("gl::get_uniform_location", << name >>,
                                r.foreign \o
                                << << "glGetUniformLocation",
                                      << r.f, program, m[2][1] >>, loc >> >>,
                                IF NotFound(loc)
                                  THEN << "Err", << "NonActiveUniform", name >> >>
                                  ELSE << "Ok", << "UniformLocation", loc >> >>)
    /\ UNCHANGED << pc, ev, cbVars, en, errorCode, stbVars >>
    /\ UNCHANGED extVars

\* The longest list of sources.
MaxSources == 2

\* gl::shader_source(shader, sources)
shader_source(shader, sources, proc) ==
    /\ CallerReady
    /\ LET count == Usize(Len(sources))
           csources == Marshalled(sources)
           lengths == [i \in 1 .. Len(sources) |-> AsI32(Usize(Len(sources[i])))]
           r == Resolve("glShaderSource", proc)
       IN  IF csources[1] = "Err"
             THEN /\ ReturnedEarly("gl::shader_source", sources, csources)
                  /\ UNCHANGED << aborted, glVars >>
             ELSE /\ Resolving("glShaderSource", r)
                  /\ IF r.panics
                       THEN ReturnedAfter("gl::shader_source", sources, r.foreign,
                                          << "panic" >>)
                       ELSE ReturnedAfter("gl::shader_source", sources,
                                r.foreign \o
                                << << "glShaderSource",
                                      << r.f, shader, AsI32(count), csources[2],
                                         lengths >>, "void" >> >>,
                                << "Ok", << "()" >> >>)
    /\ UNCHANGED << pc, ev, cbVars, en, errorCode, stbVars >>
    /\ UNCHANGED extVars

\* imgui.rs.  An Option is << "None" >> or << "Some", value >>.
Some(x) == << "Some", x >>

Nothing == << "None" >>

UnwrapOr(opt, default) == IF opt = Nothing THEN default ELSE opt[2]

\* `if b { 1 } else { 0 }`
BoolToInt(b) == IF b THEN 1 ELSE 0

\* What a widget returns in its c_uchar, and writes to the c_uchar its
\* argument points to.
CUChars == {0, 1, 2}

\* The flags a caller passes.
Flags == {Nothing, Some(64)}

\* imgui::begin(name, open, flags)
begin(name, open, flags, unfolded, copen) ==
    /\ CallerReady
    /\ LET m == Marshalled(<< name >>)
       IN  IF m[1] = "Err"
             THEN ReturnedEarly("imgui::begin", << name >>, m)
             ELSE IF open = Nothing
               THEN ReturnedAfter("imgui::begin", << name >>,
                        << << "igBegin", << m[2][1], Null, UnwrapOr(flags, 0) >>,
                              unfolded >> >>,
                        << "Ok", << "bool", unfolded # 0 >> >>)
               ELSE ReturnedWith("imgui::begin", << name >>,
                        << << "igBegin",
                              << m[2][1], BoolToInt(open[2]), UnwrapOr(flags, 0) >>,
                              unfolded >> >>,
                        << "Ok", << "bool", unfolded # 0 >> >>,
                        << copen # 0 >>)
    /\ UNCHANGED << pc, aborted, ev, cbVars, glVars, en, errorCode, stbVars >>
    /\ UNCHANGED extVars

\* imgui::checkbox(label, checked)
checkbox(label, checked, changed, cchecked) ==
    /\ CallerReady
    /\ LET m == Marshalled(<< label >>)
       IN  IF m[1] = "Err"
             THEN ReturnedEarly("imgui::checkbox", << label >>, m)
             ELSE ReturnedWith("imgui::checkbox", << label >>,
                      << << "igCheckbox", << m[2][1], BoolToInt(checked) >>,
                            changed >> >>,
                      << "Ok", << "bool", changed # 0 >> >>,
                      << cchecked # 0 >>)
    /\ UNCHANGED << pc, aborted, ev, cbVars, glVars, en, errorCode, stbVars >>
    /\ UNCHANGED extVars

\* imgui::color_edit4(label, col, flags)
color_edit4(label, col, flags, changed, ccol) ==
    /\ CallerReady
    /\ LET m == Marshalled(<< label >>)
       IN  IF m[1] = "Err"
             THEN ReturnedEarly("imgui::color_edit4", << label >>, m)
             ELSE ReturnedWith("imgui::color_edit4", << label >>,
                      << << "igColorEdit4", << m[2][1], col, UnwrapOr(flags, 0) >>,
                            changed >> >>,
                      << "Ok", << "bool", changed # 0 >> >>,
                      << ccol >>)
    /\ UNCHANGED << pc, aborted, ev, cbVars, glVars, en, errorCode, stbVars >>
    /\ UNCHANGED extVars

\* imgui::slider_float(label, v, min, max, format, flags); the format is
\* "%.3f" when None is given.
slider_float(label, v, min, max, format, flags, changed, vOut) ==
    /\ CallerReady
    /\ LET texts == IF format = Nothing THEN << label >> ELSE << label, format[2] >>
           m == Marshalled(<< label, UnwrapOr(format, << 37, 46, 51, 102 >>) >>)
       IN  IF m[1] = "Err"
             THEN ReturnedEarly("imgui::slider_float", texts, m)
             ELSE ReturnedWith("imgui::slider_float", texts,
                      << << "igSliderFloat",
                            << m[2][1], v, min, max, m[2][2], UnwrapOr(flags, 0) >>,
                            changed >> >>,
                      << "Ok", << "bool", changed # 0 >> >>,
                      << vOut >>)
    /\ UNCHANGED << pc, aborted, ev, cbVars, glVars, en, errorCode, stbVars >>
    /\ UNCHANGED extVars

\* imgui::text(s)
text(s) ==
    /\ CallerReady
    /\ LET m == Marshalled(<< s >>)
       IN  IF m[1] = "Err"
             THEN ReturnedEarly("imgui::text", << s >>, m)
             ELSE ReturnedAfter("imgui::text", << s >>,
                      << << "igText", << m[2][1] >>, "void" >> >>,
                      << "Ok", << "()" >> >>)
    /\ UNCHANGED << pc, aborted, ev, cbVars, glVars, en, errorCode, stbVars >>
    /\ UNCHANGED extVars

\* imgui::glfw::init_for_opengl(window, install_callbacks)
init_for_opengl(window, install_callbacks, retval) ==
    /\ CallerReady
    /\ ReturnedAfter("imgui::glfw::init_for_opengl", << >>,
           << << "ImGui_ImplGlfw_InitForOpenGL",
                 << window, BoolToInt(install_callbacks) >>, retval >> >>,
           IF InitFails(retval) THEN << "Err", << "ImGuiImplGlfwInitForOpenGL" >> >>
                                ELSE << "Ok", << "()" >> >>)
    /\ UNCHANGED << pc, aborted, ev, cbVars, glVars, en, errorCode, stbVars >>
    /\ UNCHANGED extVars

\* imgui::opengl::init(glsl_version)
opengl_init(glsl_version, retval) ==
    /\ CallerReady
    /\ LET m == Marshalled(<< glsl_version >>)
       IN  IF m[1] = "Err"
             THEN ReturnedEarly("imgui::opengl::init", << glsl_version >>, m)
             ELSE ReturnedAfter("imgui::opengl::init", << glsl_version >>,
                      << << "ImGui_ImplOpenGL3_Init", << m[2][1] >>, retval >> >>,
                      IF InitFails(retval) THEN << "Err", << "ImGuiImplOpenGL3Init" >> >>
                                           ELSE << "Ok", << "()" >> >>)
    /\ UNCHANGED << pc, aborted, ev, cbVars, glVars, en, errorCode, stbVars >>
    /\ UNCHANGED extVars

(***************************************************************************)
(* gl.rs: the handles with a zero constructor and their gen_* functions.   *)
(* A handle is << kind, raw id >>.  A vector of handles is the record of   *)
(* its kind, its length (a usize) and the ids of its first slots; the      *)
(* slots after these hold the raw id 0 the vector was created with.        *)
(***************************************************************************)
HandleKinds == {"VertexArray", "Buffer", "Texture"}

\* The zero handle with the raw id 1.
ZeroIsOne(kind) == << kind, 1 >>

\* VertexArray::zero() / Buffer::zero() / Texture::zero()
Zero(kind) == << kind, 0 >>

\* The call Kind::zero() by the caller.
zero(kind) ==
    /\ CallerReady
    /\ ReturnedEarly(kind \o "::zero", << >>, << "Ok", Zero(kind) >>)
    /\ UNCHANGED << pc, aborted, ev, cbVars, glVars, en, errorCode, stbVars >>
    /\ UNCHANGED extVars

\* The most handles asked for, besides the counts that do not fit an i32.
MaxGen == 2

\* 2^31 - 1, as a usize.
I32MaxUsize == << 0, 0, (Half \div 2) - 1, Half - 1 >>

\* n <= m on usize.
UsizeLeq(n, m) ==
    \E i \in 1 .. 5 :
        /\ \A j \in 1 .. (i - 1) : n[j] = m[j]
        /\ i <= 4 => n[i] < m[i]

\* What glGen* writes for a count: nothing for a count that is not
\* positive (a negative one is GL_INVALID_VALUE), else one id per slot.
GenWrites(count) ==
    IF count <= 0 THEN { << >> } ELSE [1 .. count -> 0 .. 3]

GenSymbol(kind) ==
    CASE kind = "VertexArray" -> "glGenVertexArrays"
      [] kind = "Buffer"      -> "glGenBuffers"
      [] kind = "Texture"     -> "glGenTextures"

GenName(kind) ==
    CASE kind = "VertexArray" -> "gl::gen_vertex_arrays"
      [] kind = "Buffer"      -> "gl::gen_buffers"
      [] kind = "Texture"     -> "gl::gen_textures"

\* The ids come back in the reverse order.
FilledReversed(kind, n, ids) ==
    [kind |-> kind, len |-> n,
     ids |-> [i \in 1 .. Len(ids) |-> ids[Len(ids) + 1 - i]]]

\* `vec![Kind::zero(); n]` after the foreign library wrote ids to its first
\* slots.
Filled(kind, n, ids) == [kind |-> kind, len |-> n, ids |-> ids]

\* The handle in slot i (from 1) of a vector of handles.
Slot(v, i) == IF i <= Len(v.ids) THEN << v.kind, v.ids[i] >> ELSE Zero(v.kind)

\* gl::gen_vertex_arrays(n) / gl::gen_buffers(n) / gl::gen_textures(n).
\* A vector of 2^31 handles or more may fail to allocate, which aborts.
gen(kind, n, allocated, proc, ids) ==
    /\ CallerReady
    /\ ids \in GenWrites(AsI32(n))
    /\ LET r == Resolve(GenSymbol(kind), proc)
       IN  IF ~ allocated /\ ~ UsizeLeq(n, I32MaxUsize)
             THEN /\ ReturnedEarly(GenName(kind), << >>, << "abort" >>)
                  /\ aborted' = TRUE
                  /\ UNCHANGED glVars
             ELSE /\ Resolving(GenSymbol(kind), r)
                  /\ IF r.panics
                       THEN ReturnedWith(GenName(kind), << >>, r.foreign,
                                         << "panic" >>, << n >>)
                       ELSE ReturnedWith(GenName(kind), << >>,
                                r.foreign \o
                                << << GenSymbol(kind), << r.f, AsI32(n) >>, ids >> >>,
                                << "Ok", Filled(kind, n, ids) >>, << n >>)
    /\ UNCHANGED << pc, ev, cbVars, en, errorCode, stbVars >>
    /\ UNCHANGED extVars

(***************************************************************************)
(* stb_image.rs.  The decoder (stb_image) keeps one flip-vertically        *)
(* option for the process; a decode answers null, or a buffer of W * H * C *)
(* bytes with W, H and C written to the three c_int the caller passes.     *)
(* A load runs statement by statement; img.trace lists its foreign calls   *)
(* and its copy in the order they happen.                                  *)
(***************************************************************************)
\* stb_image::set_flip_vertically_on_load(flip).  The flag is forwarded
\* inverted.
FlipFlagInverted(b) == IF b THEN 0 ELSE 1

\* `let flip = if flip { 1 } else { 0 }`
FlipFlag(b) == BoolToInt(b)

set_flip_vertically_on_load(b) ==
    /\ ~ aborted
    /\ flip' = FlipFlag(b)
    /\ flipArg' = << b >>
    /\ UNCHANGED << pc, aborted, ev, cbVars, glVars, en, errorCode, call, img >>
    /\ UNCHANGED extVars

\* The product of two 16-bit numbers as the pair of its 16-bit halves.
Mul16(x, y) ==
    LET p0 == (x % 256) * y
        p1 == (x \div 256) * y
        t  == (p1 % 256) * 256 + p0
    IN  << (p1 \div 256) + (t \div Half), t % Half >>

\* The product of two 32-bit numbers, each a pair of halves, as its four
\* 16-bit limbs, the highest first.
WideMul(a, b) ==
    LET m00 == Mul16(a[2], b[2])
        m01 == Mul16(a[2], b[1])
        m10 == Mul16(a[1], b[2])
        m11 == Mul16(a[1], b[1])
        s1  == m00[1] + m01[2] + m10[2]
        s2  == m01[1] + m10[1] + m11[2] + (s1 \div Half)
    IN  << m11[1] + (s2 \div Half), s2 % Half, s1 % Half, m00[2] >>

\* a * b on i32 does not fit an i32.
MulOverflows(a, b) ==
    LET Magnitude(x) ==
            IF x >= 0 THEN BitsOf(x)
            ELSE IF x = I32Min THEN << Half \div 2, 0 >> ELSE BitsOf(- x)
        p == WideMul(Magnitude(a), Magnitude(b))
    IN  \/ p[1] # 0
        \/ p[2] # 0
        \/ IF (a < 0) # (b < 0)
             THEN p[3] > Half \div 2 \/ (p[3] = Half \div 2 /\ p[4] # 0)
             ELSE p[3] >= Half \div 2

\* a * b on i32 where the build does not check for overflow: the low 32
\* bits of the product.
WrappingMul(a, b) ==
    AsI32(WideMul(BitsOf(a), BitsOf(b)))

\* Every path passes for UTF-8.
ValidUtf8Always(path) == TRUE

\* Path::to_str: Some for a path that is valid UTF-8.
ValidUtf8(path) == \A i \in 1 .. Len(path) : path[i] < 128

\* What a decode reports as width and height, and as channels.
Dimensions == {1, 2, 3, 32768, 46341, 65536}

\* A new load may start: the process runs and no load is in progress.
LoadReady == ~ aborted /\ img.at \in {"idle", "returned"}

\* Image::load(filename), the conversion of the path.
load(filename, checks) ==
    /\ LoadReady
    /\ LET start == [NoImage EXCEPT !.fn = "load", !.input = filename,
                                    !.checks = checks]
       IN  IF ~ ValidUtf8(filename)
             THEN img' = [start EXCEPT !.at = "returned",
                                       !.result = << "Err", << "InvalidUtf8" >> >>]
           ELSE IF Marshalled(<< filename >>)[1] = "Err"
             THEN img' = [start EXCEPT !.at = "returned",
                                       !.result = Marshalled(<< filename >>)]
           ELSE img' = [start EXCEPT !.at = "decode"]
    /\ UNCHANGED << pc, aborted, ev, cbVars, glVars, en, errorCode, call, flip, flipArg >>
    /\ UNCHANGED extVars

\* Image::load_from_memory(buffer), up to the decode.
load_from_memory(buffer, checks) ==
    /\ LoadReady
    /\ img' = [NoImage EXCEPT !.fn = "load_from_memory", !.input = buffer,
                              !.checks = checks, !.at = "decode"]
    /\ UNCHANGED << pc, aborted, ev, cbVars, glVars, en, errorCode, call, flip, flipArg >>
    /\ UNCHANGED extVars

\* The decode call, stbi_load or stbi_load_from_memory, and the test of its
\* result: null is Err(Load); the decoder leaves the three c_int alone then.
image_decode(retval, w, h, c) ==
    /\ ~ aborted
    /\ img.at = "decode"
    /\ LET name == IF img.fn = "load" THEN "stbi_load" ELSE "stbi_load_from_memory"
       IN  IF retval = Null
             THEN img' = [img EXCEPT !.at = "returned",
                                     !.retval = retval,
                                     !.flipUsed = flip,
                                     !.trace = Append(@, name),
                                     !.result = << "Err", << "Load" >> >>]
             ELSE img' = [img EXCEPT !.at = "len",
                                     !.retval = retval,
                                     !.w = w, !.h = h, !.c = c,
                                     !.buffer = "live",
                                     !.flipUsed = flip,
                                     !.trace = Append(@, name)]
    /\ UNCHANGED << pc, aborted, ev, cbVars, glVars, en, errorCode, call, flip, flipArg >>
    /\ UNCHANGED extVars

\* The buffer is freed before it is copied.
NextStatementFreeFirst(at) ==
    CASE at = "len"  -> "free"
      [] at = "free" -> "copy"
      [] at = "copy" -> "return"

\* The statement that follows a statement of a load after the decode.
NextStatement(at) ==
    CASE at = "len"  -> "copy"
      [] at = "copy" -> "free"
      [] at = "free" -> "return"

\* The load panics on the main thread: the process is gone.
ImagePanics(how) ==
    /\ img' = [img EXCEPT !.at = "panicked", !.result = << how >>]
    /\ aborted' = ProcessGone(MainThread)

\* `let len = (c_width * c_height * c_channels) as usize`: two i32
\* multiplications, each a panic on overflow in a build with overflow
\* checks and the low 32 bits of the product in a build without.
image_len ==
    /\ ~ aborted
    /\ img.at = "len"
    /\ LET wh == WrappingMul(img.w, img.h)
       IN  IF img.checks /\ (MulOverflows(img.w, img.h) \/ MulOverflows(wh, img.c))
             THEN ImagePanics("panic")
             ELSE /\ img' = [img EXCEPT !.at = NextStatement("len"),
                                        !.len = AsUsize(WrappingMul(wh, img.c))]
                  /\ UNCHANGED aborted
    /\ UNCHANGED << pc, ev, cbVars, glVars, en, errorCode, call, flip, flipArg >>
    /\ UNCHANGED extVars

\* `slice::from_raw_parts(retval, len).to_vec()`.  A length over isize::MAX
\* is undefined behaviour of from_raw_parts; what a build makes of it is a
\* failed precondition check or a failed allocation.
image_copy(outcome) ==
    /\ ~ aborted
    /\ img.at = "copy"
    /\ IF img.len[1] >= Half \div 2
         THEN ImagePanics(outcome)
         ELSE /\ img' = [img EXCEPT !.at = NextStatement("copy"),
                                    !.pixels = << img.len, img.buffer >>,
                                    !.trace = Append(@, "copy")]
              /\ UNCHANGED aborted
    /\ UNCHANGED << pc, ev, cbVars, glVars, en, errorCode, call, flip, flipArg >>
    /\ UNCHANGED extVars

\* `ffi::stbi_image_free(retval as *mut c_void)`
image_free ==
    /\ ~ aborted
    /\ img.at = "free"
    /\ img' = [img EXCEPT !.at = NextStatement("free"),
                          !.buffer = "freed",
                          !.frees = @ + 1,
                          !.trace = Append(@, "stbi_image_free")]
    /\ UNCHANGED << pc, aborted, ev, cbVars, glVars, en, errorCode, call, flip, flipArg >>
    /\ UNCHANGED extVars

\* `Ok(Image { pixels, width: c_width as usize, .. })`
image_return ==
    /\ ~ aborted
    /\ img.at = "return"
    /\ img' = [img EXCEPT !.at = "returned",
                          !.result = << "Ok", [pixels   |-> img.pixels[1],
                                               width    |-> AsUsize(img.w),
                                               height   |-> AsUsize(img.h),
                                               channels |-> AsUsize(img.c)] >>]
    /\ UNCHANGED << pc, aborted, ev, cbVars, glVars, en, errorCode, call, flip, flipArg >>
    /\ UNCHANGED extVars

(***************************************************************************)
(* The trampolines after the lookup of the slot: the validation of the     *)
(* text, the conversion of the codes and the dispatch (glfw.rs, gl.rs).    *)
(***************************************************************************)
\* CStr::from_ptr(description).to_str().expect(..): the text GLFW passed is
\* well-formed UTF-8 or not.
ec_to_str(t) ==
    /\ ~aborted
    /\ pc[t] = "ec_to_str"
    /\ IF ValidUtf8(raw[t][2])
         THEN /\ pc' = [pc EXCEPT ![t] = "ec_call"]
              /\ ev' = NoEvent
              /\ UNCHANGED aborted
         ELSE /\ aborted' = TRUE
              /\ pc' = Panicked(t)
              /\ ev' = [kind |-> "fatal", at |-> "error_callback", why |-> "utf8"]
    /\ UNCHANGED << errVars, dbgVars, arg, cb, alone, fresh, lastReplaced, raw,
                    glVars, en, bindVars >>
    /\ UNCHANGED extVars

\* The arguments handed over as the GL debug trampoline's would be: the
\* code left as it came.
ErrorArgsUndecoded(r) == << Unknown(r[1]), r[2] >>

\* `error_code.into(), description`
ErrorArgs(r) == << ErrorCodeFrom(r[1]), r[2] >>

\* cb(error_code.into(), description) and the return to GLFW.
ec_call(t) ==
    /\ ~aborted
    /\ pc[t] = "ec_call"
    /\ pc' = [pc EXCEPT ![t] = "idle"]
    /\ ev' = [kind |-> "invoke", at |-> "error_callback", thread |-> t,
              fn |-> cb[t], fresh |-> fresh[t], raw |-> raw[t],
              args |-> ErrorArgs(raw[t])]
    /\ cb' = [cb EXCEPT ![t] = None]
    /\ fresh' = [fresh EXCEPT ![t] = FALSE]
    /\ raw' = [raw EXCEPT ![t] = NoRaw]
    /\ UNCHANGED << aborted, errVars, dbgVars, arg, alone, lastReplaced,
                    glVars, en, bindVars >>
    /\ UNCHANGED extVars

\* CStr::from_ptr(message).to_str().expect(..)
dc_to_str(t) ==
    /\ ~aborted
    /\ pc[t] = "dc_to_str"
    /\ IF ValidUtf8(raw[t][5])
         THEN /\ pc' = [pc EXCEPT ![t] = "dc_call"]
              /\ ev' = NoEvent
              /\ UNCHANGED aborted
         ELSE /\ aborted' = TRUE
              /\ pc' = Panicked(t)
              /\ ev' = [kind |-> "fatal", at |-> "debug_callback", why |-> "utf8"]
    /\ UNCHANGED << errVars, dbgVars, arg, cb, alone, fresh, lastReplaced, raw,
                    glVars, en, bindVars >>
    /\ UNCHANGED extVars

\* `source.into(), typ.into(), id, severity.into(), message`
DebugArgs(r) ==
    << From(Table("DebugSource"), r[1]), From(Table("DebugType"), r[2]), r[3],
       From(Table("DebugSeverity"), r[4]), r[5] >>

\* cb(source.into(), typ.into(), id, severity.into(), message) and the return.
dc_call(t) ==
    /\ ~aborted
    /\ pc[t] = "dc_call"
    /\ pc' = [pc EXCEPT ![t] = "idle"]
    /\ ev' = [kind |-> "invoke", at |-> "debug_callback", thread |-> t,
              fn |-> cb[t], raw |-> raw[t], args |-> DebugArgs(raw[t])]
    /\ cb' = [cb EXCEPT ![t] = None]
    /\ raw' = [raw EXCEPT ![t] = NoRaw]
    /\ UNCHANGED << aborted, errVars, dbgVars, arg, alone, fresh, lastReplaced,
                    glVars, en, bindVars >>
    /\ UNCHANGED extVars

(***************************************************************************)
(* imgui.rs: the file names of IO.  A field of ImGuiIO is null (Nothing)   *)
(* or points to a C string.                                                *)
(***************************************************************************)
\* None handed over as a pointer to the empty C string.
FilenamePointerEmpty(filename) ==
    IF filename = Nothing THEN << "Ok", Some(<< 0 >>) >>
    ELSE IF Marshalled(<< filename[2] >>)[1] = "Err" THEN Marshalled(<< filename[2] >>)
    ELSE << "Ok", Some(Marshalled(<< filename[2] >>)[2][1]) >>

\* `match filename { Some(s) => Box::leak(Box::new(CString::new(s)?)).as_ptr(),
\*                   None => ptr::null() }`
FilenamePointer(filename) ==
    IF filename = Nothing THEN << "Ok", Nothing >>
    ELSE IF Marshalled(<< filename[2] >>)[1] = "Err" THEN Marshalled(<< filename[2] >>)
    ELSE << "Ok", Some(Marshalled(<< filename[2] >>)[2][1]) >>

\* IO::set_ini_filename(filename)
set_ini_filename(filename) ==
    /\ CallerReady
    /\ LET texts == IF filename = Nothing THEN << >> ELSE << filename[2] >>
           ptr == FilenamePointer(filename)
       IN  IF ptr[1] = "Err"
             THEN /\ ReturnedEarly("imgui::IO::set_ini_filename", texts, ptr)
                  /\ UNCHANGED io
             ELSE /\ io' = [io EXCEPT !.IniFilename = ptr[2]]
                  /\ ReturnedEarly("imgui::IO::set_ini_filename", texts,
                                   << "Ok", << "()" >> >>)
    /\ UNCHANGED << pc, aborted, ev, cbVars, glVars, en, errorCode, stbVars,
                    fbCallbacks, glfwFbCb, closeFlag, e2e >>

\* IO::set_log_filename(filename)
set_log_filename(filename) ==
    /\ CallerReady
    /\ LET texts == IF filename = Nothing THEN << >> ELSE << filename[2] >>
           ptr == FilenamePointer(filename)
       IN  IF ptr[1] = "Err"
             THEN /\ ReturnedEarly("imgui::IO::set_log_filename", texts, ptr)
                  /\ UNCHANGED io
             ELSE /\ io' = [io EXCEPT !.LogFilename = ptr[2]]
                  /\ ReturnedEarly("imgui::IO::set_log_filename", texts,
                                   << "Ok", << "()" >> >>)
    /\ UNCHANGED << pc, aborted, ev, cbVars, glVars, en, errorCode, stbVars,
                    fbCallbacks, glfwFbCb, closeFlag, e2e >>

(***************************************************************************)
(* glfw.rs: windows.  The registry of framebuffer-size callbacks is keyed  *)
(* by window: an entry is "absent" until the first registration for its    *)
(* window, and holds None or a callback afterwards.  The program runs on   *)
(* the main thread, as GLFW asks for window functions and their call-ins.  *)
(***************************************************************************)
\* The registration written to every window's entry (one slot for all).
StoreEntryAll(map, window, callback) == [w \in DOMAIN map |-> callback]

\* The entry of the window gets the callback; no other entry is touched.
StoreEntry(map, window, callback) == [map EXCEPT ![window] = callback]

\* glfw::set_framebuffer_size_callback(window, callback): the entry of the
\* window is stored, then GLFW gets the trampoline for the window, or null
\* for None.
set_framebuffer_size_callback(window, callback) ==
    /\ CallerReady
    /\ fbCallbacks' = StoreEntry(fbCallbacks, window, callback)
    /\ glfwFbCb' = [glfwFbCb EXCEPT ![window] =
                       IF callback # None THEN "framebuffer_size_callback" ELSE Null]
    /\ ReturnedWith("glfw::set_framebuffer_size_callback", << >>,
                    << << "glfwSetFramebufferSizeCallback", << window >>,
                          glfwFbCb'[window] >> >>,
                    << "()" >>, << window, callback >>)
    /\ UNCHANGED << pc, aborted, ev, cbVars, glVars, en, errorCode, stbVars,
                    closeFlag, e2e, io >>

\* The trampoline framebuffer_size_callback(window, width, height): the
\* entry of the window is looked up; a missing entry and an entry without a
\* callback are fatal; else the callback is called with the window and the
\* size.
framebuffer_size_callback(window, width, height) ==
    /\ CallerReady
    /\ IF fbCallbacks[window] \in {"absent", None}
         THEN /\ aborted' = TRUE
              /\ ReturnedWith("glfw::framebuffer_size_callback", << >>, << >>,
                              << "fatal", IF fbCallbacks[window] = "absent"
                                            THEN "unknown window" ELSE "not set" >>,
                              << window, width, height >>)
         ELSE /\ ReturnedWith("glfw::framebuffer_size_callback", << >>, << >>,
                              << "invoke", fbCallbacks[window],
                                 << << "Window", window >>, width, height >> >>,
                              << window, width, height >>)
              /\ UNCHANGED aborted
    /\ UNCHANGED << pc, ev, cbVars, glVars, en, errorCode, stbVars, extVars >>

\* The flag compared with GLFW_TRUE.
CloseFlagIsTrue(flag) == flag = 1

\* `ffi::glfwWindowShouldClose(window.0) != 0`
CloseFlagSet(flag) == flag # 0

\* glfw::window_should_close(window)
window_should_close(window) ==
    /\ CallerReady
    /\ ReturnedAfter("glfw::window_should_close", << >>,
                     << << "glfwWindowShouldClose", << window >>, closeFlag[window] >> >>,
                     << "bool", CloseFlagSet(closeFlag[window]) >>)
    /\ UNCHANGED << pc, aborted, ev, cbVars, glVars, en, errorCode, stbVars, extVars >>

\* glfw::terminate()
terminate ==
    /\ CallerReady
    /\ ReturnedAfter("glfw::terminate", << >>, << << "glfwTerminate", << >>, 0 >> >>,
                     << "()" >>)
    /\ UNCHANGED << pc, aborted, ev, cbVars, glVars, en, errorCode, stbVars, extVars >>

\* The user asks to close the window of the run, or the program does with
\* glfwSetWindowShouldClose: GLFW sets the close flag of the window.
close_request(value) ==
    /\ ~ aborted
    /\ e2e.at = "running"
    /\ closeFlag[e2e.window] = 0
    /\ closeFlag' = [closeFlag EXCEPT ![e2e.window] = value]
    /\ UNCHANGED << pc, aborted, ev, cbVars, glVars, en, bindVars, fbCallbacks,
                    glfwFbCb, e2e, io >>

\* The program takes the result of the call it made and goes on: `?` ends
\* the run with the Err of glfw::init or glfw::create_window; the window
\* created is the window of the run; glfw::terminate ends the run.
run_next ==
    /\ ~ aborted
    /\ call # NoCall
    /\ call' = NoCall
    /\ e2e' = CASE call.result[1] = "Err" -> [e2e EXCEPT !.at = "failed"]
                [] call.fn = "glfw::init" /\ call.result[1] = "Ok" ->
                      [e2e EXCEPT !.at = "inited"]
                [] call.fn = "glfw::create_window" /\ call.result[1] = "Ok" ->
                      [e2e EXCEPT !.at = "running", !.window = call.result[2][2]]
                [] call.fn = "glfw::window_should_close" ->
                      [e2e EXCEPT !.query = << call.result[2] >>]
                [] call.fn = "glfw::terminate" -> [e2e EXCEPT !.at = "done"]
                [] OTHER -> e2e
    /\ UNCHANGED << pc, aborted, ev, cbVars, glVars, en, errorCode, stbVars,
                    fbCallbacks, glfwFbCb, closeFlag, io >>

(***************************************************************************)
(* Initial state and specifications.                                       *)
(***************************************************************************)
\* The statics as the source initialises them: both slots None, both
\* Mutexes free and unpoisoned, every OnceLock empty; the foreign libraries
\* hold no call-in.
ProgramInit ==
    /\ pc = [t \in Threads |-> "idle"]
    /\ aborted = FALSE
    /\ ev = NoEvent
    /\ ERROR_CALLBACK = None
    /\ errLock = Free
    /\ errPoisoned = FALSE
    /\ glfwErrCb = Null
    /\ DEBUG_CALLBACK = None
    /\ dbgLock = Free
    /\ dbgPoisoned = FALSE
    /\ glDebugCb = Null
    /\ arg = [t \in Threads |-> None]
    /\ cb = [t \in Threads |-> None]
    /\ alone = [t \in Threads |-> TRUE]
    /\ fresh = [t \in Threads |-> FALSE]
    /\ lastReplaced = None
    /\ raw = [t \in Threads |-> NoRaw]
    /\ once = [s \in Symbols |-> "incomplete"]
    /\ cell = [s \in Symbols |-> Null]
    /\ sym = [t \in Threads |-> None]
    /\ tmp = [t \in Threads |-> Null]
    /\ fptr = [t \in Threads |-> Null]
    /\ lookups = [s \in Symbols |-> 0]
    /\ stores = [s \in Symbols |-> 0]

\* No wrapper was called yet; the decoder's flip option is off, as
\* stb_image starts with it; no window has a framebuffer-size callback or
\* a close request and no run of the program started; ImGuiIO has the file
\* names Dear ImGui creates it with ("imgui.ini" and "imgui_log.txt", here
\* the C strings "i" and "l").
WrappersInit ==
    /\ call = NoCall
    /\ flip = 0
    /\ flipArg = << >>
    /\ img = NoImage
    /\ fbCallbacks = [w \in Addresses |-> "absent"]
    /\ glfwFbCb = [w \in Addresses |-> Null]
    /\ closeFlag = [w \in Addresses |-> 0]
    /\ e2e = [at |-> "start", window |-> Null, query |-> << >>]
    /\ io = [IniFilename |-> << "Some", << 105, 0 >> >>,
             LogFilename |-> << "Some", << 108, 0 >> >>]

Init == ProgramInit /\ en = NoConversion /\ errorCode = NoErrorCode /\ WrappersInit

InitEnum ==
    /\ ProgramInit
    /\ \/ en \in { [enum |-> e, kind |-> "code", c0 |-> c0, v0 |-> NoValue,
                     c |-> c0, v |-> NoValue, trace |-> << >>] :
                       e \in EnumNames, c0 \in RawCodes }
       \/ en \in UNION { { [enum |-> e, kind |-> "value", c0 |-> NoCode, v0 |-> v0,
                             c |-> NoCode, v |-> v0, trace |-> << >>] :
                               v0 \in Values(e) } : e \in EnumNames }
    /\ errorCode = NoErrorCode
    /\ WrappersInit

InitErrorCode ==
    /\ ProgramInit
    /\ en = NoConversion
    /\ errorCode \in ErrorCodeInputs
    /\ WrappersInit

\* The GLFW error callback registry: registrations and call-ins on every
\* thread.
NextErr ==
    \E t \in Threads :
        \/ \E callback \in FnErrors \cup {None} : sec_lock(t, callback)
        \/ sec_store(t)
        \/ sec_ffi(t)
        \/ \E description \in {<< 97 >>, << 255 >>} :
              error_callin(t, \H10001, description)
        \/ ec_lock(t)
        \/ ec_expect(t)
        \/ ec_to_str(t)
        \/ ec_call(t)

\* The GL debug callback registry: registrations, through the wrapper of
\* glDebugMessageCallback, and call-ins on every thread.
NextDbg ==
    \E t \in Threads :
        \/ \E callback \in FnDebugs : dmc_lock(t, callback)
        \/ dmc_store(t)
        \/ glfn_get(t)
        \/ glfn_once(t)
        \/ glfn_lookup(t)
        \/ glfn_store(t)
        \/ glfn_call(t)
        \/ \E message \in {<< 97 >>, << 255 >>} :
              debug_callin(t, U32(\H8246), U32(\H824C), U32(7), U32(\H9146), message)
        \/ dc_lock(t)
        \/ dc_expect(t)
        \/ dc_to_str(t)
        \/ dc_call(t)

\* The resolver: calls of wrapped GL entry points on every thread.
NextGl ==
    \E t \in Threads :
        \/ \E s \in GlSymbols : glfn_enter(t, s)
        \/ glfn_get(t)
        \/ glfn_once(t)
        \/ glfn_lookup(t)
        \/ glfn_store(t)
        \/ glfn_call(t)

\* The call-ins: the main thread registers callbacks, and the foreign
\* libraries call the trampolines on every thread, one call-in at a time,
\* with codes the enums name and codes they do not, and with texts that are
\* UTF-8 and texts that are not; the user's error callback may register
\* too.
NextCallIn ==
    \/ \E callback \in FnErrors \cup {None} : sec_lock(MainThread, callback)
    \/ \E callback \in FnDebugs : dmc_lock(MainThread, callback)
    \/ dmc_store(MainThread)
    \/ glfn_get(MainThread)
    \/ glfn_once(MainThread)
    \/ glfn_lookup(MainThread)
    \/ glfn_store(MainThread)
    \/ glfn_call(MainThread)
    \/ \E t \in Threads :
          \/ \E error_code \in {\H10001, -1, \H8246},
                description \in {<< 97 >>, << 97, 255 >>} :
                /\ \A u \in Threads : raw[u] = NoRaw
                /\ error_callin(t, error_code, description)
          \/ ec_lock(t)
          \/ ec_expect(t)
          \/ ec_to_str(t)
          \/ \E callback \in FnErrors \cup {None} :
                pc[t] = "ec_call" /\ sec_lock(t, callback)
          \/ sec_store(t)
          \/ sec_ffi(t)
          \/ ec_call(t)
          \/ \E r \in { << U32(\H8246), U32(\H824C), U32(7), U32(\H9146) >>,
                          << U32(\H824C), U32(\H9146), U32(0), U32(\H8246) >> },
                message \in {<< 97 >>, << 255 >>} :
                /\ \A u \in Threads : raw[u] = NoRaw
                /\ debug_callin(t, r[1], r[2], r[3], r[4], message)
          \/ dc_lock(t)
          \/ dc_expect(t)
          \/ dc_to_str(t)
          \/ dc_call(t)

SpecCallIn == Init /\ [][NextCallIn]_vars

\* A run of the program as App::run makes it: glfw::init, create_window of
\* the 800 x 600 window "test", then queries of the close flag,
\* registrations of framebuffer-size callbacks, call-ins of the trampoline
\* and close requests in any order, and glfw::terminate.
NextWindows ==
    \/ \E retval \in CInts : e2e.at = "start" /\ glfw_init(retval)
    \/ \E window \in Pointers :
          /\ e2e.at = "inited"
          /\ create_window(800, 600, << 116, 101, 115, 116 >>, None, None, window)
    \/ e2e.at = "running" /\ window_should_close(e2e.window)
    \/ \E window \in Addresses, callback \in {None, "r1", "r2"} :
          e2e.at = "running" /\ set_framebuffer_size_callback(window, callback)
    \/ \E window \in Addresses, width \in {800, 1024}, height \in {600} :
          e2e.at = "running" /\ framebuffer_size_callback(window, width, height)
    \/ \E value \in {1, 2} : close_request(value)
    \/ e2e.at = "running" /\ terminate
    \/ run_next

SpecWindows == Init /\ [][NextWindows]_vars

\* The file names of ImGuiIO set in any order.
NextIo ==
    \/ \E filename \in {Nothing} \cup { Some(f) : f \in Texts } :
          set_ini_filename(filename)
    \/ \E filename \in {Nothing} \cup { Some(f) : f \in Texts } :
          set_log_filename(filename)
    \/ caller_continues

SpecIo == Init /\ [][NextIo]_vars

\* The enum conversions applied to an input.
NextEnum == from_code \/ to_code

SpecErr == Init /\ [][NextErr]_vars

SpecDbg == Init /\ [][NextDbg]_vars

SpecGl == Init /\ [][NextGl]_vars

SpecEnum == InitEnum /\ [][NextEnum]_vars

\* The wrappers that take a text argument or translate a failure
\* sentinel, called one after the other by the main thread.
NextWrap ==
    \/ \E retval \in CInts : glfw_init(retval)
    \/ \E width \in {640}, height \in {480}, title \in Texts,
          monitor \in {None, "monitor"}, share \in {None, "window"},
          window \in Pointers :
          create_window(width, height, title, monitor, share, window)
    \/ \E procname \in Texts, proc \in Pointers : get_proc_address(procname, proc)
    \/ \E program \in {0, 1}, name \in Texts, proc \in Pointers, loc \in {-2, -1, 0, 1} :
          get_uniform_location(program, name, proc, loc)
    \/ \E shader \in {0, 1}, sources \in UNION { [1 .. n -> Texts] : n \in 0 .. MaxSources }, proc \in Pointers :
          shader_source(shader, sources, proc)
    \/ \E name \in Texts, open \in {Nothing, Some(TRUE), Some(FALSE)},
          flags \in Flags, unfolded \in CUChars, copen \in CUChars :
          begin(name, open, flags, unfolded, copen)
    \/ \E label \in Texts, checked \in BOOLEAN, changed \in CUChars,
          cchecked \in CUChars :
          checkbox(label, checked, changed, cchecked)
    \/ \E label \in Texts, col \in {"black", "white"}, flags \in Flags,
          changed \in CUChars, ccol \in {"black", "white"} :
          color_edit4(label, col, flags, changed, ccol)
    \/ \E label \in Texts, v \in {0, 1}, format \in {Nothing} \cup { Some(f) : f \in Texts },
          flags \in Flags, changed \in CUChars, vOut \in {0, 1} :
          slider_float(label, v, 0, 1, format, flags, changed, vOut)
    \/ \E s \in Texts : text(s)
    \/ \E window \in Addresses, install_callbacks \in BOOLEAN, retval \in CInts :
          init_for_opengl(window, install_callbacks, retval)
    \/ \E glsl_version \in Texts, retval \in CInts : opengl_init(glsl_version, retval)
    \/ caller_continues

SpecWrap == Init /\ [][NextWrap]_vars

\* The image loader: loads and changes of the flip option, on the main
\* thread.
NextImage ==
    \/ \E b \in BOOLEAN : set_flip_vertically_on_load(b)
    \/ \E filename \in UNION { [1 .. n -> {0, 97, 255}] : n \in 0 .. MaxText }, checks \in BOOLEAN : load(filename, checks)
    \/ \E buffer \in Texts, checks \in BOOLEAN : load_from_memory(buffer, checks)
    \/ \E retval \in {Null, "buffer"}, w \in Dimensions, h \in Dimensions,
          c \in 1 .. 4 :
          image_decode(retval, w, h, c)
    \/ image_len
    \/ \E outcome \in {"panic", "abort"} : image_copy(outcome)
    \/ image_free
    \/ image_return

SpecImage == Init /\ [][NextImage]_vars

\* The handles: zero() and gen_*() called one after the other by the main
\* thread, gen_*() with the counts 0 .. MaxGen, 2^31, 2^32 - 1, 2^32 and
\* 2^32 + 1.
NextHandles ==
    \/ \E kind \in HandleKinds : zero(kind)
    \/ \E kind \in HandleKinds, allocated \in BOOLEAN, proc \in Pointers,
          n \in { Usize(k) : k \in 0 .. MaxGen }
                   \cup { << 0, 0, Half \div 2, 0 >>, << 0, 0, Half - 1, Half - 1 >>,
                          << 0, 1, 0, 0 >>, << 0, 1, 0, 1 >> } :
          \E ids \in GenWrites(AsI32(n)) : gen(kind, n, allocated, proc, ids)
    \/ caller_continues

SpecHandles == Init /\ [][NextHandles]_vars

\* ErrorCode::from applied to an input.
NextErrorCode == error_code_from

SpecErrorCode == InitErrorCode /\ [][NextErrorCode]_vars

(***************************************************************************)
(* The callback registry of glfw.rs (SpecErr).                             *)
(***************************************************************************)
\* The last step was the return of a set_error_callback(callback) that no
\* other registration overlapped.
Returned(callback) ==
    /\ ev.kind = "return"
    /\ ev.op = "set_error_callback"
    /\ ev.arg = callback
    /\ ev.alone

\* C1: when set_error_callback(None) returns, whatever the slot held before,
\* ERROR_CALLBACK is None and the call-in pointer GLFW holds is null, so that
\* GLFW can start no call-in; the calls are taken one after the other (no
\* other registration runs during the clearing).
C1_ClearLeavesNoDispatch ==
    Returned(None) =>
        /\ ERROR_CALLBACK = None
        /\ glfwErrCb = Null
        /\ \A t \in Threads : ~ ENABLED error_callin(t, 0, << >>)

\* C1 witness: a clearing returned, and the store it made replaced a callback.
C1_Witness == Returned(None) /\ lastReplaced \in FnErrors

\* C2: the slot holds one callback, the argument of the last registration:
\* when a registration that ran alone returns, the slot holds its argument;
\* a trampoline whose lookup no store followed invokes the callback the slot
\* holds, and returns to GLFW with that one invocation.
C2_LastRegistrationWins ==
    /\ \A callback \in FnErrors \cup {None} :
          Returned(callback) => ERROR_CALLBACK = callback
    /\ (ev.kind = "invoke" /\ ev.at = "error_callback" /\ ev.fresh) =>
          /\ ev.fn \in FnErrors
          /\ ev.fn = ERROR_CALLBACK
          /\ pc[ev.thread] = "idle"
          /\ cb[ev.thread] = None

\* C2 witness: f was registered, g replaced it, and a call-in invoked g.
C2_Witness ==
    /\ ev.kind = "invoke"
    /\ ev.at = "error_callback"
    /\ ev.fresh
    /\ ev.fn = "g"
    /\ ERROR_CALLBACK = "g"
    /\ lastReplaced = "f"

\* C3: set_error_callback(None) on a slot that is already None (also as the
\* first operation on the registry) returns normally and leaves the slot None
\* and the call-in pointer of GLFW null; no set_error_callback ever panics.
C3_ClearIsIdempotent ==
    /\ (Returned(None) /\ lastReplaced = None) =>
          /\ ERROR_CALLBACK = None
          /\ glfwErrCb = Null
          /\ ~ aborted
          /\ pc[ev.thread] \in {"idle", "ec_call"}
    /\ ~ (ev.kind = "panic" /\ ev.at = "set_error_callback")
    /\ (errPoisoned => aborted)

\* C3 witness: a clearing of an unset slot returned while nothing was ever
\* registered on the GLFW side.
C3_Witness ==
    /\ Returned(None)
    /\ lastReplaced = None
    /\ \A t \in Threads : pc[t] = "idle"

\* C4: a trampoline (error_callback, debug_callback) that reaches its slot
\* check while the slot is None ends the process there: the step is fatal,
\* the thread goes no further, no callback is copied out, and nothing runs
\* once the process is gone.
C4_MissingCallbackIsFatal ==
    [][ /\ \A t \in Threads :
              (pc[t] = "ec_expect" /\ pc'[t] # "ec_expect" /\ ERROR_CALLBACK = None) =>
                  /\ aborted'
                  /\ ev'.kind = "fatal"
                  /\ pc'[t] = "panicked"
                  /\ cb'[t] = cb[t]
        /\ \A t \in Threads :
              (pc[t] = "dc_expect" /\ pc'[t] # "dc_expect" /\ DEBUG_CALLBACK = None) =>
                  /\ aborted'
                  /\ ev'.kind = "fatal"
                  /\ pc'[t] = "panicked"
                  /\ cb'[t] = cb[t]
        /\ ev'.kind = "invoke" => ev'.fn \in FnErrors \cup FnDebugs
        /\ ~ aborted
      ]_vars

\* C4 witness: GLFW called error_callback while the slot was None, and the
\* process is gone.
C4_Witness ==
    /\ ev.kind = "fatal"
    /\ ev.at = "error_callback"
    /\ ev.why = "not set"
    /\ aborted

(***************************************************************************)
(* The resolver of gl.rs (SpecGl).                                         *)
(***************************************************************************)
\* C5: for every wrapped entry point, all the calls of its wrapper together
\* make at most one glfwGetProcAddress lookup.
C5_AtMostOneLookup == \A s \in Symbols : lookups[s] <= 1

\* C6: when several threads make the first call of a wrapper at once, the
\* cell of the symbol is written once: one lookup result is stored, the cell
\* is complete exactly when it was written, and every call goes through the
\* pointer the cell holds.
C6_OneWriterFillsTheCell ==
    /\ \A s \in Symbols :
          /\ stores[s] <= 1
          /\ (once[s] = "complete") = (stores[s] = 1)
          /\ (cell[s] \in Addresses) = (stores[s] = 1)
          /\ stores[s] = 0 => cell[s] = Null
    /\ \A t \in Threads :
          pc[t] = "gl_call" => fptr[t] = cell[sym[t]] /\ fptr[t] \in Addresses
    /\ ev.kind = "call" => ev.through = cell[ev.sym] /\ ev.through \in Addresses

\* C6 witness: two threads made the first call of one wrapper together; one
\* has filled the cell and is at the call, the other, which found the cell
\* empty, is still at the Once.
C6_Witness ==
    \E t, u \in Threads :
        /\ t # u
        /\ sym[t] = sym[u]
        /\ pc[t] = "gl_call"
        /\ pc[u] = "gl_once"
        /\ stores[sym[t]] = 1

\* C7: once the lookup of a symbol has failed on a thread (the thread
\* panicked in the wrapper), that lookup stays the only one ever made for
\* the symbol.
C7_FailedLookupNotRetried ==
    \A t \in Threads :
        (pc[t] = "panicked" /\ sym[t] \in Symbols) => lookups[sym[t]] = 1

(***************************************************************************)
(* The enums of define_enum! (SpecEnum).                                   *)
(***************************************************************************)
\* Unknown carrying the code of a named variant: a value from_code never
\* produces.
Shadow(e, x) == x[1] = "Unknown" /\ x[2] \in TableCodes(Table(e))

\* C8: for DebugSource, DebugType and DebugSeverity and every named variant
\* v, from_code(to_code(v)) = v; the named variants of an enum have
\* pairwise different codes.
C8_NamedRoundTrip ==
    (en.kind = "value" /\ en.v0 \in Named(Table(en.enum))) =>
        /\ Cardinality(TableCodes(Table(en.enum))) = Len(Table(en.enum))
        /\ Len(en.trace) >= 1 => en.c \in TableCodes(Table(en.enum))
        /\ Len(en.trace) >= 2 => en.v = en.v0

\* C8 witness: DebugType::Other, the arm out of numeric order, converted to
\* its code and back.
C8_Witness ==
    /\ en.enum = "DebugType"
    /\ en.kind = "value"
    /\ en.v0 = << "Other" >>
    /\ en.trace = << "to", "from" >>
    /\ en.c = U32(\H8251)

\* C9: for every raw u32 code c that the table of the enum does not name,
\* from_code(c) is Unknown(c) and to_code(from_code(c)) = c.
C9_UnknownRoundTrip ==
    (en.kind = "code" /\ IsU32(en.c0) /\ en.c0 \notin TableCodes(Table(en.enum))) =>
        /\ Len(en.trace) >= 1 => en.v = Unknown(en.c0)
        /\ Len(en.trace) >= 2 => en.c = en.c0

\* C9 witness: a code that differs from the code of DebugSource::Api in its
\* high half only, converted to Unknown and back.
C9_Witness ==
    /\ en.enum = "DebugSource"
    /\ en.kind = "code"
    /\ en.c0 = << 1, \H8246 >>
    /\ en.trace = << "from", "to" >>
    /\ en.v = << "Unknown", << 1, \H8246 >> >>
    /\ en.c = en.c0

\* C10 as claimed: to_code maps no two different enum values to one code.
C10_ToCodeInjective ==
    (en.kind = "value" /\ en.trace = << "to" >>) =>
        \A w \in Values(en.enum) :
            To(Table(en.enum), w) = en.c => w = en.v0

\* C10 as amended: to_code is defined on every enum value and gives a u32;
\* it returns exactly c for Unknown(c), also when c is the code of a named
\* variant; two different values have one code only when one of them is
\* Unknown of a named variant's code; every other value is what from_code
\* gives back for its code.
C10_ToCodeLossless ==
    (en.kind = "value" /\ Len(en.trace) >= 1) =>
        /\ IsU32(en.c)
        /\ en.v0[1] = "Unknown" => en.c = en.v0[2]
        /\ \A w \in Values(en.enum) :
              (w # en.v0 /\ To(Table(en.enum), w) = en.c) =>
                  (Shadow(en.enum, w) \/ Shadow(en.enum, en.v0))
        /\ (Len(en.trace) >= 2 /\ ~ Shadow(en.enum, en.v0)) => en.v = en.v0

\* C10 witness: DebugSource::Unknown(0x8246), which carries the code of
\* DebugSource::Api, converted to its code.
C10_Witness ==
    /\ en.enum = "DebugSource"
    /\ en.kind = "value"
    /\ en.v0 = << "Unknown", U32(\H8246) >>
    /\ en.trace = << "to" >>
    /\ en.c = U32(\H8246)

(***************************************************************************)
(* ErrorCode::from (SpecErrorCode).                                        *)
(***************************************************************************)
\* C11: ErrorCode::from gives a value for every i32 code: NoError for 0, for
\* each code of 0x00010001 .. 0x0001000E a named variant that no other code
\* of that range gives, and for every other code, the negative ones
\* included, Unknown carrying exactly the code.
C11_ErrorCodeFromTotal ==
    errorCode.done =>
        LET code == errorCode.code
            value == errorCode.value
            NamedErrors == { ErrorCodeTable[i][1] : i \in 2 .. Len(ErrorCodeTable) }
        IN  /\ code = 0 => value = << "NoError" >>
            /\ code \in \H10001 .. \H1000E =>
                  /\ Len(value) = 1
                  /\ value[1] \in NamedErrors
                  /\ \A other \in (\H10001 .. \H1000E) \ {code} :
                        ErrorCodeFrom(other) # value
            /\ (code # 0 /\ code \notin \H10001 .. \H1000E) =>
                  value = << "Unknown", code >>

\* C11 witness: a negative code whose low half is the low half of a named
\* code was converted, and gave Unknown of that code.
C11_Witness ==
    /\ errorCode.done
    /\ errorCode.code = - \H10001
    /\ errorCode.value = << "Unknown", - \H10001 >>

(***************************************************************************)
(* The wrappers of foreign functions (SpecWrap).                           *)
(***************************************************************************)
\* C12: a wrapper with a text argument, called with a NUL byte in any of
\* its text arguments (for gl::shader_source: in any one of the sources),
\* returns Err(InvalidCString) and has made no foreign call at all, the
\* lookup of a GL entry point included.
C12_NulTextMakesNoForeignCall ==
    LET TextWrappers ==
            {"glfw::create_window", "glfw::get_proc_address",
             "gl::get_uniform_location", "gl::shader_source", "imgui::begin",
             "imgui::checkbox", "imgui::color_edit4", "imgui::slider_float",
             "imgui::text", "imgui::opengl::init"}
    IN  (call.fn \in TextWrappers
            /\ \E i \in 1 .. Len(call.texts) : HasNul(call.texts[i])) =>
            /\ call.result[1] = "Err"
            /\ call.result[2][1] = "InvalidCString"
            /\ call.foreign = << >>

\* C12 witness: shader_source returned InvalidCString for two sources of
\* which only the second has a NUL.
C12_Witness ==
    /\ call.fn = "gl::shader_source"
    /\ Len(call.texts) = 2
    /\ ~ HasNul(call.texts[1])
    /\ HasNul(call.texts[2])
    /\ call.result[1] = "Err"
    /\ call.foreign = << >>

\* C13: a wrapper with a failure sentinel returns its typed error exactly
\* when its foreign call returned the sentinel (0 for glfwInit and the two
\* ImGui backends, null for glfwCreateWindow and glfwGetProcAddress), and
\* Ok exactly when the foreign call returned something else; the Ok of
\* create_window and get_proc_address wraps the very pointer returned.
C13_SentinelBecomesTypedError ==
    LET fn == call.fn
        SentinelWrappers ==
            {"glfw::init", "glfw::create_window", "glfw::get_proc_address",
             "imgui::glfw::init_for_opengl", "imgui::opengl::init"}
        Sentinel ==
            IF fn \in {"glfw::create_window", "glfw::get_proc_address"}
              THEN Null ELSE 0
        SentinelError ==
            CASE fn = "imgui::glfw::init_for_opengl" -> << "ImGuiImplGlfwInitForOpenGL" >>
              [] fn = "imgui::opengl::init"          -> << "ImGuiImplOpenGL3Init" >>
              [] OTHER                               -> << "Ffi" >>
        Wrapped(ret) ==
            CASE fn = "glfw::create_window"    -> << "Window", ret >>
              [] fn = "glfw::get_proc_address" -> << "GlProc", ret >>
              [] OTHER                         -> << "()" >>
    IN  fn \in SentinelWrappers =>
            LET made == call.foreign # << >>
                ret == call.foreign[Len(call.foreign)][3]
            IN  /\ (call.result[1] = "Err" /\ call.result[2] = SentinelError)
                      <=> (made /\ ret = Sentinel)
                /\ call.result[1] = "Ok" <=> (made /\ ret # Sentinel)
                /\ call.result[1] = "Ok" => call.result[2] = Wrapped(ret)

\* C13 witness: glfwInit returned a value that is neither 0 nor 1, and
\* glfw::init returned Ok.
C13_Witness ==
    /\ call.fn = "glfw::init"
    /\ call.foreign[1][3] = 2
    /\ call.result = << "Ok", << "()" >> >>

\* C14: when get_uniform_location made the foreign lookup, it returns
\* Err(NonActiveUniform(name)), with the name it was called with, if the
\* lookup returned -1, and Ok of a location wrapping the returned value
\* otherwise; it returns NonActiveUniform in no other case.
C14_UniformMissIsMinusOne ==
    call.fn = "gl::get_uniform_location" =>
        LET made == /\ call.foreign # << >>
                    /\ call.foreign[Len(call.foreign)][1] = "glGetUniformLocation"
            loc == call.foreign[Len(call.foreign)][3]
        IN  /\ made =>
                  IF loc = -1
                    THEN /\ call.result[1] = "Err"
                         /\ call.result[2] = << "NonActiveUniform", call.texts[1] >>
                    ELSE /\ call.result[1] = "Ok"
                         /\ call.result[2] = << "UniformLocation", loc >>
            /\ (call.result[1] = "Err" /\ call.result[2][1] = "NonActiveUniform") =>
                  made /\ loc = -1

\* C14 witness: the lookup returned -2 and the wrapper returned Ok(-2).
C14_Witness ==
    /\ call.fn = "gl::get_uniform_location"
    /\ call.result = << "Ok", << "UniformLocation", -2 >> >>
    /\ call.texts[1] = << 97 >>

(***************************************************************************)
(* The image loader (SpecImage).                                           *)
(***************************************************************************)
\* C15: a load whose decode succeeded and reported W, H and C returns an
\* Image with W * H * C bytes of pixels, width W, height H and C channels.
\* (Scaled is a usize times a small number; ByteCount is W * H * C as a
\* usize.)
C15_PixelCountIsProduct ==
    LET Scaled(limbs, k) ==
            LET t4 == limbs[4] * k
                t3 == limbs[3] * k + (t4 \div Half)
                t2 == limbs[2] * k + (t3 \div Half)
                t1 == limbs[1] * k + (t2 \div Half)
            IN  << t1 % Half, t2 % Half, t3 % Half, t4 % Half >>
        ByteCount == Scaled(WideMul(BitsOf(img.w), BitsOf(img.h)), img.c)
        DecodedAndOver == img.retval # Null /\ img.at \in {"returned", "panicked"}
    IN  DecodedAndOver =>
            /\ img.result[1] = "Ok"
            /\ img.result[2].pixels = ByteCount
            /\ img.result[2].width = Usize(img.w)
            /\ img.result[2].height = Usize(img.h)
            /\ img.result[2].channels = Usize(img.c)

C18_FlipIsSticky ==
    /\ [](flipArg # << >> => flip = IF flipArg[1] THEN 1 ELSE 0)
    /\ [][/\ (img.at = "decode" /\ img'.at # "decode" /\ flipArg # << >>) =>
                img'.flipUsed = IF flipArg[1] THEN 1 ELSE 0
          /\ img' # img => (flip' = flip /\ flipArg' = flipArg)]_vars

\* C18 witness: a load decoded with the option on, after an earlier load
\* decoded with it off, returned.
C18_Witness ==
    /\ flipArg = << TRUE >>
    /\ img.at = "returned"
    /\ img.flipUsed = 1
    /\ img.result[1] = "Ok"

(***************************************************************************)
(* The handles.                                                            *)
(***************************************************************************)
\* A gen_* function returned its vector.
GenReturned ==
    /\ call.fn \in { GenName(kind) : kind \in HandleKinds }
    /\ call.result[1] = "Ok"

\* The single generate call a returned gen_* made: its symbol, its
\* arguments << function, count >> and the ids the library wrote.
GenCall == call.foreign[Len(call.foreign)]

\* The vector has a slot i.
HasSlot(v, i) == UsizeLeq(Usize(i), v.len)

\* C19: every call of zero() gives the handle with raw id 0, and every
\* handle a gen_* call returns differs from it unless the library wrote
\* the id 0.
C19_ZeroDiffersFromEveryGenerated ==
    /\ \A kind \in HandleKinds :
           call.fn = kind \o "::zero" => call.result = << "Ok", << kind, 0 >> >>
    /\ (GenReturned /\ \A i \in 1 .. Len(GenCall[3]) : GenCall[3][i] # 0) =>
           LET v == call.result[2]
           IN  \A i \in 1 .. (Len(v.ids) + 1) :
                   HasSlot(v, i) => Slot(v, i) # << v.kind, 0 >>

\* C19 amended: every call of zero() gives the handle with raw id 0; it
\* differs from every handle of a gen_* result in a slot the library wrote,
\* unless the library wrote the id 0; these are all the slots of the result
\* when n <= i32::MAX.
C19_ZeroDiffersFromEveryWritten ==
    /\ \A kind \in HandleKinds :
           call.fn = kind \o "::zero" => call.result = << "Ok", << kind, 0 >> >>
    /\ (GenReturned /\ \A i \in 1 .. Len(GenCall[3]) : GenCall[3][i] # 0) =>
           LET v == call.result[2]
           IN  /\ \A i \in 1 .. Len(GenCall[3]) :
                      HasSlot(v, i) /\ Slot(v, i) # << v.kind, 0 >>
               /\ UsizeLeq(call.out[1], I32MaxUsize) =>
                      ~ HasSlot(v, Len(GenCall[3]) + 1)

\* C19 witness: gen_textures(2) returned the handles 1 and 2.
C19_Witness ==
    /\ GenReturned
    /\ call.fn = "gl::gen_textures"
    /\ call.out = << Usize(2) >>
    /\ call.result[2].ids = << 1, 2 >>

\* C20: a gen_* function returns n handles, result i is the id the library
\* wrote into slot i, and the count it passed equals n.
C20_GenReturnsWhatWasWritten ==
    GenReturned =>
        LET v == call.result[2]
            n == call.out[1]
            count == GenCall[2][2]
            written == GenCall[3]
        IN  /\ v.len = n
            /\ count >= 0 /\ Usize(count) = n
            /\ Usize(Len(written)) = n
            /\ \A i \in 1 .. Len(written) : Slot(v, i) = << v.kind, written[i] >>

\* C20 amended: a gen_* function returns n handles; the count it passed is
\* the low 32 bits of n as a signed number, which is n when n <= i32::MAX;
\* result i is the id the library wrote into slot i for the slots it wrote,
\* which are all of them when n <= i32::MAX, and the zero handle for the
\* other slots.
C20_GenReturnsNarrowedCount ==
    GenReturned =>
        LET v == call.result[2]
            n == call.out[1]
            count == GenCall[2][2]
            written == GenCall[3]
        IN  /\ v.len = n
            /\ GenCall[1] = GenSymbol(v.kind)
            /\ BitsOf(count) = << n[3], n[4] >>
            /\ UsizeLeq(n, I32MaxUsize) =>
                   /\ count >= 0 /\ Usize(count) = n
                   /\ Usize(Len(written)) = n
            /\ \A i \in 1 .. Len(written) :
                   HasSlot(v, i) /\ Slot(v, i) = << v.kind, written[i] >>
            /\ HasSlot(v, Len(written) + 1) =>
                   Slot(v, Len(written) + 1) = << v.kind, 0 >>

\* C20 witness: gen_buffers(2) returned the ids 3 and 1 in the order the
\* library wrote them.
C20_Witness ==
    /\ GenReturned
    /\ call.fn = "gl::gen_buffers"
    /\ GenCall[2][2] = 2
    /\ GenCall[3] = << 3, 1 >>
    /\ Slot(call.result[2], 1) = << "Buffer", 3 >>
    /\ Slot(call.result[2], 2) = << "Buffer", 1 >>

(***************************************************************************)
(* The trampolines: decoding and dispatch (SpecCallIn).                    *)
(***************************************************************************)
\* C21: a trampoline that is called in with raw arguments and a well-formed
\* text while the slot holds a callback invokes that callback, once, with
\* the decoded arguments, and returns to the foreign library when the
\* callback does (the callback may have called set_error_callback):
\* error_callback with ErrorCode::from(code) and the text, debug_callback
\* with DebugSource::from(source), DebugType::from(typ), the id as it came,
\* DebugSeverity::from(severity) and the text.
C21_TrampolineDecodesAndInvokesOnce ==
    /\ [](/\ (ev.kind = "invoke" /\ ev.at = "error_callback") =>
                /\ ev.fn \in FnErrors
                /\ ev.fresh => ev.fn = ERROR_CALLBACK
                /\ ev.args = << ErrorCodeFrom(ev.raw[1]), ev.raw[2] >>
                /\ ev.raw[1] = \H10001 => ev.args[1] = << "NotInitialized" >>
                /\ ev.raw[1] \in {-1, \H8246} => ev.args[1] = << "Unknown", ev.raw[1] >>
          /\ (ev.kind = "invoke" /\ ev.at = "debug_callback") =>
                /\ ev.fn \in FnDebugs
                /\ ev.args = << From(Table("DebugSource"), ev.raw[1]),
                                From(Table("DebugType"), ev.raw[2]),
                                ev.raw[3],
                                From(Table("DebugSeverity"), ev.raw[4]),
                                ev.raw[5] >>
                /\ ev.raw[1] = U32(\H824C) => ev.args[1] = << "Unknown", U32(\H824C) >>)
    /\ [][\A t \in Threads :
            /\ (pc[t] \in {"ec_call", "dc_call"} /\ pc'[t] # pc[t]) =>
                  \/ /\ pc'[t] = "idle"
                     /\ ev'.kind = "invoke"
                     /\ ev'.thread = t
                     /\ ev'.fn = cb[t]
                     /\ ev'.raw = raw[t]
                  \/ /\ pc[t] = "ec_call"
                     /\ pc'[t] = "cb_sec_store"
            /\ pc[t] \in {"ec_call", "dc_call", "cb_sec_store", "cb_sec_ffi"} =>
                  (pc'[t] # "idle" => (cb'[t] = cb[t] /\ raw'[t] = raw[t]))
            /\ (ev'.kind = "invoke" /\ ev'.thread = t) =>
                  pc[t] \in {"ec_call", "dc_call"} /\ pc'[t] = "idle"
            /\ (pc'[t] = "ec_call" /\ pc[t] # "ec_call") =>
                  pc[t] \in {"ec_to_str", "cb_sec_ffi"}
            /\ (pc'[t] = "dc_call" /\ pc[t] # "dc_call") => pc[t] = "dc_to_str"]_vars

\* C21 witness: debug_callback invoked the callback df with the variants of
\* the codes 0x8246, 0x824C and 0x9146, the id 7 and the text.
C21_Witness ==
    /\ ev.kind = "invoke"
    /\ ev.at = "debug_callback"
    /\ ev.fn = "df"
    /\ ev.args = << << "Api" >>, << "Error" >>, U32(7), << "High" >>, << 97 >> >>

\* C22: a call-in whose text is not well-formed UTF-8 never reaches the
\* dispatch and never returns to the foreign library: the callback is
\* invoked with well-formed text only, and the validation that fails ends
\* the process.
C22_MalformedTextIsFatal ==
    /\ [](/\ \A t \in Threads :
                (raw[t] # NoRaw /\ \E i \in 1 .. Len(raw[t][Len(raw[t])]) :
                                       raw[t][Len(raw[t])][i] >= 128) =>
                    pc[t] \in {"ec_lock", "ec_expect", "ec_to_str",
                               "dc_lock", "dc_expect", "dc_to_str", "panicked"}
          /\ ev.kind = "invoke" =>
                \A i \in 1 .. Len(ev.raw[Len(ev.raw)]) : ev.raw[Len(ev.raw)][i] < 128
          /\ (ev.kind = "fatal" /\ ev.why = "utf8") => aborted)
    /\ [][\A t \in Threads :
            (pc[t] \in {"ec_to_str", "dc_to_str"} /\ pc'[t] # pc[t]
                /\ \E i \in 1 .. Len(raw[t][Len(raw[t])]) :
                       raw[t][Len(raw[t])][i] >= 128) =>
                /\ pc'[t] = "panicked"
                /\ aborted'
                /\ ev'.kind = "fatal"
                /\ ev'.why = "utf8"]_vars

\* C22 witness: debug_callback found the callback dg in the slot and then
\* failed on a text that is not UTF-8.
C22_Witness ==
    /\ ev.kind = "fatal"
    /\ ev.at = "debug_callback"
    /\ ev.why = "utf8"
    /\ DEBUG_CALLBACK = "dg"
    /\ aborted

\* C23: a trampoline holds the lock of its slot for the lookup only: a
\* thread that validates the text, dispatches, or runs a registration made
\* by the user's callback does not hold the guard of the lookup; a lock is
\* held only at a statement that releases it without waiting; and the
\* user's callback that calls set_error_callback during a dispatch can take
\* the lock, or the lock's holder is another thread whose next statement
\* releases it.
C23_LockHeldForLookupOnly ==
    /\ \A t \in Threads :
          /\ pc[t] \in {"ec_to_str", "ec_call", "cb_sec_ffi"} => t \notin errLock
          /\ pc[t] \in {"dc_to_str", "dc_call"} => t \notin dbgLock
          /\ t \in errLock => pc[t] \in {"sec_store", "cb_sec_store", "ec_expect"}
          /\ t \in dbgLock => pc[t] \in {"dmc_store", "dc_expect"}
          /\ (~ aborted /\ pc[t] = "ec_call") =>
                \/ ENABLED sec_lock(t, None)
                \/ \E u \in errLock :
                      /\ u # t
                      /\ ENABLED sec_store(u) \/ ENABLED ec_expect(u)

\* C23 witness: the user's callback, dispatched to on a worker thread,
\* returned from its set_error_callback while the main thread is inside
\* a registration of its own.
C23_Witness ==
    /\ ev.kind = "return"
    /\ ev.op = "set_error_callback"
    /\ ev.thread # MainThread
    /\ pc[ev.thread] = "ec_call"
    /\ pc[MainThread] = "sec_ffi"

\* C24: the framebuffer-size callbacks are kept per window, keyed by the
\* window handle.  The trampoline called for window w dispatches to the
\* callback stored for w, with w and the size, and to no callback stored
\* for another window; called for a window without an entry it is fatal,
\* and so it is for a window whose entry holds no callback.  A
\* registration changes the entry of its window only, to the callback
\* registered, and nothing else changes an entry.
C24_CallbacksArePerWindow ==
    /\ [](call.fn = "glfw::framebuffer_size_callback" =>
            LET window == call.out[1]
            IN  /\ fbCallbacks[window] = "absent" =>
                      call.result = << "fatal", "unknown window" >> /\ aborted
                /\ fbCallbacks[window] = None =>
                      call.result = << "fatal", "not set" >> /\ aborted
                /\ fbCallbacks[window] \notin {"absent", None} =>
                      /\ call.result =
                            << "invoke", fbCallbacks[window],
                               << << "Window", window >>, call.out[2], call.out[3] >> >>
                      /\ ~ aborted)
    /\ [][\A w \in Addresses :
            fbCallbacks'[w] # fbCallbacks[w] =>
                /\ call'.fn = "glfw::set_framebuffer_size_callback"
                /\ call = NoCall
                /\ call'.out[1] = w
                /\ fbCallbacks'[w] = call'.out[2]]_vars

\* C24 witness: two windows hold different callbacks and the trampoline
\* called for p2 dispatched to the callback of p2.
C24_Witness ==
    /\ fbCallbacks["p1"] = "r1"
    /\ fbCallbacks["p2"] = "r2"
    /\ call.fn = "glfw::framebuffer_size_callback"
    /\ call.out[1] = "p2"
    /\ call.result[1] = "invoke"
    /\ call.result[2] = "r2"

\* C25: the run glfw::init, create_window(800, 600, "test", None, None),
\* window_should_close(window), terminate, on a GLFW that initialises and
\* creates the window, completes without an error value: the run ends with
\* an Err only at glfw::init when glfwInit answered 0 or at create_window
\* when glfwCreateWindow answered null, the title "test" is always
\* accepted, and window_should_close and terminate return no error.
\* window_should_close returns true exactly when the close flag GLFW
\* answered is non-zero, the flag answered is the window's, and every
\* answer is false as long as no close request was made for the window.
C25_RunCompletesAndCloseFlagIsRead ==
    /\ [](/\ call.fn = "glfw::window_should_close" =>
                /\ call.foreign[1][2] = << e2e.window >>
                /\ call.result = << "bool", call.foreign[1][3] # 0 >>
          /\ call.fn = "glfw::terminate" => call.result = << "()" >>
          /\ (e2e.at = "running" /\ closeFlag[e2e.window] = 0) =>
                /\ e2e.query \in {<< >>, << FALSE >>}
                /\ call.fn = "glfw::window_should_close" => call.result[2] = FALSE
          /\ e2e.at \in {"running", "done"} => e2e.window \in Addresses)
    /\ [][/\ (call'.fn = "glfw::window_should_close" /\ call = NoCall) =>
                call'.foreign[1][3] = closeFlag[e2e.window]
          /\ (e2e'.at = "failed" /\ e2e.at # "failed") =>
                \/ call.fn = "glfw::init" /\ call.foreign[1][3] = 0
                \/ call.fn = "glfw::create_window"
                      /\ Len(call.foreign) = 1
                      /\ call.foreign[1][3] = Null]_vars

\* C25 witness: the run is complete, the window was created, its close
\* flag was read as false with no close request made, and glfw::terminate
\* returned.
C25_Witness ==
    /\ e2e.at = "done"
    /\ e2e.window \in Addresses
    /\ e2e.query = << FALSE >>
    /\ closeFlag[e2e.window] = 0
    /\ ~ aborted

\* C26: whatever the interleaving of the set_error_callback calls of
\* different threads, once all of them have returned GLFW holds the
\* trampoline if and only if the slot ERROR_CALLBACK is set.
C26_PointerMatchesSlotWhenAllReturned ==
    (/\ ~ aborted
     /\ Registering = {}
     /\ \A t \in Threads : pc[t] # "panicked") =>
        (glfwErrCb = ErrorTrampoline <=> ERROR_CALLBACK # None)

\* C27: in every state, those between the two statements of
\* set_error_callback included, GLFW holding the trampoline implies that
\* the slot ERROR_CALLBACK is set, and no error call-in ends in the fatal
\* "callback is not set".
C27_TrampolineHeldImpliesSlotSet ==
    /\ (ev.kind = "fatal" /\ ev.at = "error_callback") => ev.why # "not set"
    /\ (~ aborted /\ glfwErrCb = ErrorTrampoline) => ERROR_CALLBACK # None

\* C28: the slot DEBUG_CALLBACK is monotonic.  It changes only by the
\* store of a debug_message_callback, to the callback registered, and once
\* set it is never empty again; the store comes before the trampoline is
\* handed to the GL, so whenever the GL holds the trampoline the slot is set
\* and debug_callback never fails for a missing callback.  The lookup of
\* debug_callback copies the callback the slot holds at that moment and the
\* dispatch calls that copy, so after debug_message_callback(f) and then
\* debug_message_callback(g) a message is dispatched to g.
C28_DebugSlotIsMonotonic ==
    /\ [](/\ glDebugCb = DebugTrampoline => DEBUG_CALLBACK # None
          /\ (ev.kind = "fatal" /\ ev.at = "debug_callback") => ev.why # "not set"
          /\ \A t \in Threads :
                pc[t] \in {"gl_get", "gl_once", "gl_lookup", "gl_store", "gl_call"}
                    /\ sym[t] = "glDebugMessageCallback" => DEBUG_CALLBACK # None)
    /\ [][/\ DEBUG_CALLBACK # None => DEBUG_CALLBACK' # None
          /\ DEBUG_CALLBACK' # DEBUG_CALLBACK =>
                \E t \in Threads : /\ pc[t] = "dmc_store"
                                   /\ pc'[t] = "gl_get"
                                   /\ DEBUG_CALLBACK' = arg[t]
          /\ \A t \in Threads :
                /\ (pc[t] = "dc_expect" /\ pc'[t] = "dc_to_str") =>
                      cb'[t] = DEBUG_CALLBACK
                /\ (pc[t] = "dc_call" /\ pc'[t] = "idle") =>
                      ev'.kind = "invoke" /\ ev'.fn = cb[t]]_vars

\* C28 witness: df was registered and a message for it is still being
\* dispatched on one thread (it copied df from the slot), dg was
\* registered afterwards, and the message that came after that went to dg.
C28_Witness ==
    /\ DEBUG_CALLBACK = "dg"
    /\ glDebugCb = DebugTrampoline
    /\ ev.kind = "invoke"
    /\ ev.at = "debug_callback"
    /\ ev.fn = "dg"
    /\ \E t \in Threads : pc[t] = "dc_call" /\ cb[t] = "df"

C30_FilenameSettersAreIndependent ==
    /\ [](call.fn \in {"imgui::IO::set_ini_filename", "imgui::IO::set_log_filename"} =>
            LET field == IF call.fn = "imgui::IO::set_ini_filename"
                           THEN io.IniFilename ELSE io.LogFilename
            IN  /\ call.texts = << >> =>
                      call.result = << "Ok", << "()" >> >> /\ field = Nothing
                /\ (call.texts # << >> /\ ~ HasNul(call.texts[1])) =>
                      /\ call.result = << "Ok", << "()" >> >>
                      /\ field = Some(Append(call.texts[1], 0))
                /\ (call.texts # << >> /\ HasNul(call.texts[1])) =>
                      /\ call.result[1] = "Err"
                      /\ call.result[2][1] = "InvalidCString")
    /\ [][call = NoCall =>
            /\ call'.fn = "imgui::IO::set_ini_filename" =>
                  io'.LogFilename = io.LogFilename
            /\ call'.fn = "imgui::IO::set_log_filename" =>
                  io'.IniFilename = io.IniFilename
            /\ call'.result[1] = "Err" => io' = io]_vars

\* C30 witness: set_ini_filename(Some("a")) stored "a", and then
\* set_log_filename(None) set LogFilename to null and left IniFilename.
C30_Witness ==
    /\ call.fn = "imgui::IO::set_log_filename"
    /\ call.texts = << >>
    /\ io.LogFilename = Nothing
    /\ io.IniFilename = Some(<< 97, 0 >>)

====
